---- MODULE Spec2Model ----
(***************************************************************************)
(* StreamMerger (include/merge/stream_merger.hpp) fed by N payload rings   *)
(* (include/lockfree/ring.hpp): ingest, hold-back reordering, dedup by u,  *)
(* batched emission and the shutdown drain.                                *)
(*                                                                         *)
(* Threads are interleaved at the granularity of one loop iteration of the *)
(* merger and one ring operation of a producer.  Memory is sequentially    *)
(* consistent.  std::priority_queue does not fix the order of entries with *)
(* equal u, so top() is any entry no other entry precedes under MinCmp.    *)
(* Vectored writes succeed under Spec and FairSpec; under ErrSpec the file *)
(* system may refuse them.                                                 *)
(*                                                                         *)
(* Beside the merger: one lockfree::Ring with a producer and a consumer    *)
(* (RingSpec), retry::Backoff on its own (BackoffSpec), one session's      *)
(* connect-read loop with its MessageQueue (SessionSpec), the main thread  *)
(* in Run (RunnerSpec), the FileLogger with its latency queues and files   *)
(* (LoggerSpec), one blocking session with its stop token (SyncSpec), and  *)
(* one call of io::WritevAll (WritevSpec).  Each specification moves its   *)
(* own variables and leaves the others at their initial values.            *)
(*                                                                         *)
(* Further: the formatting of one latency line in fixed-width integers     *)
(* (ItoaSpec), CpuAffinity::PickAndPin called from several threads         *)
(* (AffinitySpec), the stop sequence at the end of Run with the reactor    *)
(* worker and the session threads (TeardownSpec), and the passes of        *)
(* FlushReady and DrainAll over a heap that ingest has filled (PassSpec,   *)
(* HoldSpec with fairness, BatchSpec together with the logger), beside     *)
(* which the string-buffered merger of include/stream_merger.hpp is        *)
(* written as functions of the same heap.                                  *)
(***************************************************************************)
EXTENDS Integers, Sequences, FiniteSets, TLC

\* ---------------------------------------------------------------- bounds
NumQueues == 2          \* payload rings (default of --num)
RingCap == 2            \* slots per ring (kRawOrderQueueCapacity scaled down)
BatchEntries == 2       \* entries per vectored write (64 scaled down)
MaxU == 2               \* largest update id a payload carries
MaxPublish == 3         \* total payloads the sessions publish
LivePublish == 2        \* the same under FairSpec
MaxNow == 20            \* last clock reading in ms
MaxRingCalls == 10      \* calls made on the ring of RingSpec
MaxBackoffCalls == 9    \* calls of Backoff::Next() in BackoffSpec
MessageQueueCap == 2    \* items per MessageQueue (kMessageQueueCapacity scaled down)
MaxSessionLog == 12     \* connect outcomes, waits and frames of one session
MaxSeconds == 2         \* largest --seconds
MaxRunClock == 4        \* last steady_clock reading of the main thread, in s
LatencyCap == 2         \* events per latency queue (kLatencyRingCapacity scaled down)
LogBatch == 2           \* lines per vectored write of the logger (128 scaled down)
MaxLatEvents == 3       \* latency events the sessions push in total
MaxConnects == 2        \* connections a blocking session gets established
MaxFrames == 2          \* frames a blocking session receives
MaxIov == 3             \* iovecs handed to one io::WritevAll call
MaxIovLen == 2          \* bytes per iovec
IntBits == 8            \* bits of std::int64_t (64 scaled down)
NumCpus == 2            \* CPUs listed in /proc/stat
AffThreads == 2         \* threads that call CpuAffinity::PickAndPin
MaxPicks == 3           \* calls of PickAndPin in all
MaxResets == 1          \* calls of ResetUsed in all
MaxHandlers == 2        \* completion handlers the reactor worker runs
PassHeap == 3           \* entries on the heap when a pass is examined
PassU == 3              \* largest update id among them

\* ------------------------------------------------------ program constants
kHoldback_ == 20
kFirstMs == 200                  \* Backoff::current_ms = 200, Reset()
max_ms == 5000                   \* Backoff::max_ms
kIovMax == 2 * BatchEntries      \* struct iovec iov[128]: two per entry
TickMs == kHoldback_ \div 2      \* the clock is read in steps of half a window

Rings == 1..NumQueues
None == -1                       \* std::nullopt

\* ---------------------------------------------------------------- payloads
\* A payload is the byte string of one frame, one character per element.
DigitChars == <<"0", "1", "2", "3", "4", "5", "6", "7", "8", "9">>
IsDigit(c) == \E d \in 1..10 : DigitChars[d] = c
DigitVal(c) == (CHOOSE d \in 1..10 : DigitChars[d] = c) - 1
IsSpace(c) == c = " "            \* bytes <= ' '

\* {"u":k} for odd k, {"u": k} for even k, and a frame without u
PayloadU(k) ==
  IF k % 2 = 1
  THEN <<"{", "\"", "u", "\"", ":", DigitChars[k + 1], "}">>
  ELSE <<"{", "\"", "u", "\"", ":", " ", DigitChars[k + 1], "}">>
PayloadNoU == <<"{", "\"", "E", "\"", ":", "1", "}">>
Payloads == {PayloadU(k) : k \in 1..MaxU} \cup {PayloadNoU}

\* string_view::find(pat, from), 1-based; 0 is npos
Find(s, pat, from) ==
  LET hits == {p \in from..(Len(s) - Len(pat) + 1) :
                 SubSeq(s, p, p + Len(pat) - 1) = pat}
  IN IF hits = {} THEN 0 ELSE CHOOSE p \in hits : \A q \in hits : p <= q

RECURSIVE SkipSpace(_, _)
SkipSpace(s, pos) ==
  IF pos <= Len(s) /\ IsSpace(s[pos]) THEN SkipSpace(s, pos + 1) ELSE pos

\* std::from_chars on [pos, end): value of the longest digit prefix
RECURSIVE FromChars(_, _, _)
FromChars(s, pos, acc) ==
  IF pos <= Len(s) /\ IsDigit(s[pos])
  THEN FromChars(s, pos + 1, 10 * acc + DigitVal(s[pos]))
  ELSE acc

ExtractUpdateId(s) ==
  LET p1 == Find(s, <<"\"", "u", "\"">>, 1) IN
  IF p1 = 0 THEN None ELSE
  LET p2 == Find(s, <<":">>, p1) IN
  IF p2 = 0 THEN None ELSE
  LET first == SkipSpace(s, p2 + 1) IN
  IF first <= Len(s) /\ IsDigit(s[first]) THEN FromChars(s, first, 0) ELSE None

\* ExtractUpdateId tabulated over the payloads of the model
ParsedU == [p \in Payloads |-> ExtractUpdateId(p)]

\* ------------------------------------------------------------------ state
VARIABLES
  free_,            \* Ring::free_  : number of empty slots, per ring
  ready_,           \* Ring::ready_ : FIFO of published payloads, per ring
  held,             \* producer i holds a slot between acquire and publish
  sessions_running, \* the sessions have not been torn down
  published,        \* payloads published so far (bounded by MaxPublish)
  fd_,              \* output file descriptor, -1 when open failed
  stop_requested_,  \* StreamMerger::stop_requested_
  last_emitted_u_,  \* StreamMerger::last_emitted_u_
  minheap_,         \* StreamMerger::minheap_ : set of BufEntry
  pc,               \* position of the merger worker
  qi,               \* IngestQueues loop index i
  now_,             \* FlushReady local `now`
  last_u,           \* FlushReady / DrainAll local last_u
  batch_entries,    \* FlushReady / DrainAll local batch_entries
  iov_cnt,          \* FlushReady / DrainAll local iov_cnt
  clock,            \* steady_clock in ms at its last reading
  out,              \* lines of the merged file, with the entry that made each
  joined,           \* Join() has returned
  consumed,         \* history: slots consumed from each ring
  released,         \* history: slots released to each ring
  pushed,           \* history: heap pushes, with the output length at the push
  nextid,           \* history: ordinal of the next ingested payload
  ev,               \* history: what became of the payload just ingested
  pass_heap,        \* history: the heap as the pass under way found it
  pass_len          \* history: the length of the merged file at that time

\* one lockfree::Ring on its own, with the identity of every slot
VARIABLES
  ring,             \* Ring::free_ and Ring::ready_ : FIFOs of slots
  prod_held,        \* slots the producer holds between acquire and publish
  cons_held,        \* items the consumer holds between consume and release
  ret,              \* the last ring call and what it returned
  ncalls,           \* ring calls made so far
  pub_log,          \* history: items in the order publish accepted them
  con_log           \* history: items in the order consume returned them

\* one session: its Backoff, its run loop and its MessageQueue
VARIABLES
  current_ms,       \* Backoff::current_ms
  since_reset,      \* history: calls of Next() since construction or Reset()
  blog,             \* history: what each Next() returned, with its ordinal
  s_pc,             \* position of the session in Run
  queue_,           \* the session's MessageQueue
  nframes,          \* frames read from the connection so far
  slog              \* history: connect outcomes, waits and frames, in order

\* the main thread in Run(opt, mode)
VARIABLES
  r_pc,             \* position of the main thread in Run
  seconds,          \* RunOptions::seconds
  deadline,         \* std::optional deadline, None when empty
  r_clock,          \* steady_clock in seconds
  sessions_started, \* sessions whose Start() has been called
  merger_started,   \* merger.Start() has been called
  signaled,         \* the process has been sent a signal
  exit_code,        \* what Run returned, None while it runs
  stop_at           \* history: clock when the Stop section was entered

\* FileLogger, its latency queues and its files
VARIABLES
  fds_,             \* FileLogger::fds_ : one descriptor per session, -1 if none
  ext_queues_,      \* FileLogger::ext_queues_ : one latency queue per session
  running_,         \* LoggerBase::running_
  lg_pc,            \* position of the logger worker in RunLoop
  current,          \* RunLoop local `current`
  fin_i,            \* RunLoop: index i of the loop after the round-robin loop
  drain_i,          \* DrainQueue parameter i
  lines,            \* DrainQueue locals linebuf / iov / cnt: the batched lines
  files,            \* content of each session's latency file
  join_called,      \* LoggerBase::Join() has been entered
  lg_joined,        \* LoggerBase::Join() has returned
  producing,        \* the sessions still push latency events
  quiet_join,       \* history: the sessions had stopped when Join() was called
  lat_pushed,       \* history: events each latency queue accepted, in order
  lg_opened,        \* history: AddSession opened the session's file
  lg_failed         \* history: a vectored write to the session's file failed

\* one blocking session (SyncSession) and its stop token; it shares
\* current_ms, queue_ and nframes with the session above
VARIABLES
  st_stop,          \* std::stop_token: stop has been requested
  y_pc,             \* position of the session's thread in Run / ReadLoop
  stop_seen,        \* history: st.stop_requested() has returned true
  y_conn,           \* connections established so far
  y_ev,             \* history: the last outcome of a connect or a read
  y_steps           \* history: the connect steps of the current attempt

\* the file system under the writers
VARIABLES
  writev_errno      \* what the next writev() fails with, "none" if it succeeds

\* one call of io::WritevAll(fd, iov, cnt)
VARIABLES
  w_pc,             \* "idle", "loop" (while (cnt > 0)) or "returned"
  w_iov,            \* iov[0..cnt) as the loop sees it: the bytes still to write
  w_file,           \* the bytes the file has received, in order
  w_all,            \* history: the bytes of all iovecs as passed in
  w_err,            \* history: writev failed with a hard error
  w_seen            \* history: kinds of writev results seen

\* one line formatted from one latency event
VARIABLES
  it_ev,            \* the LatencyEvent handed to the formatter
  it_line           \* the bytes of its line, empty before the first event

\* CpuAffinity: its statics and the threads inside PickAndPin
VARIABLES
  m_,               \* CpuAffinity::m_ : the thread that holds it, 0 if none
  used_,            \* CpuAffinity::used_
  rr_idx_,          \* CpuAffinity::rr_idx_
  a_pc,             \* per thread: "idle", "locked", "picked" or "pin"
  opt,              \* per thread: PickAndPin local opt
  chosen,           \* per thread: PickAndPin local chosen
  a_ret,            \* per thread: what its last PickAndPin returned
  npicks,           \* history: calls of PickAndPin begun
  nresets           \* history: calls of ResetUsed

\* the end of Run(opt, mode): the main thread, the reactor and the sessions
VARIABLES
  td_mode,          \* RunMode: "async" or "sync", "none" before Run is called
  t_pc,             \* position of the main thread in the shutdown sequence
  ioc_stopped,      \* io_context::stopped()
  wk,               \* reactor worker: "idle" in run(), "handler", "exited"
  sessions_alive,   \* the session objects have not been destroyed
  nhandlers,        \* history: handlers the worker has run
  td_late           \* history: session code ran on a destroyed session

mergerVars == <<free_, ready_, held, sessions_running, published, fd_,
                stop_requested_, last_emitted_u_, minheap_, pc, qi, now_,
                last_u, batch_entries, iov_cnt, clock, out, joined, consumed,
                released, pushed, nextid, ev, pass_heap, pass_len>>
ringVars == <<ring, prod_held, cons_held, ret, ncalls, pub_log, con_log>>
sessionVars == <<current_ms, since_reset, blog, s_pc, queue_, nframes, slog>>
runnerVars == <<r_pc, seconds, deadline, r_clock, sessions_started,
                merger_started, signaled, exit_code, stop_at>>

loggerVars == <<fds_, ext_queues_, running_, lg_pc, current, fin_i, drain_i,
                lines, files, join_called, lg_joined, producing, quiet_join,
                lat_pushed, lg_opened, lg_failed>>
syncVars == <<st_stop, y_pc, stop_seen, y_conn, y_ev, y_steps>>
writevVars == <<w_pc, w_iov, w_file, w_all, w_err, w_seen>>
itoaVars == <<it_ev, it_line>>
affinityVars == <<m_, used_, rr_idx_, a_pc, opt, chosen, a_ret, npicks,
                  nresets>>
teardownVars == <<td_mode, t_pc, ioc_stopped, wk, sessions_alive, nhandlers,
                  td_late>>
moreVars == <<itoaVars, affinityVars, teardownVars>>
sideVars == <<loggerVars, writev_errno, syncVars, writevVars, moreVars>>
\* the variables of the merger, ring, session, runner, logger and writer models
coreVars == <<mergerVars, ringVars, sessionVars, runnerVars, loggerVars,
              writev_errno, syncVars, writevVars>>

\* what the merger and its producers leave alone
otherVars == <<ringVars, sessionVars, runnerVars, sideVars>>
\* what the users of the single ring leave alone
notRing == <<mergerVars, sessionVars, runnerVars, sideVars>>
\* what a session and its Backoff leave alone
notSession == <<mergerVars, ringVars, runnerVars, sideVars>>
\* what the runner's own steps leave alone
notRunner == <<mergerVars, ringVars, sessionVars, sideVars>>
\* what the logger and its producers leave alone
notLogger == <<mergerVars, ringVars, sessionVars, runnerVars, writev_errno,
               syncVars, writevVars, moreVars>>
\* what a change of the file system leaves alone
notDisk == <<mergerVars, ringVars, sessionVars, runnerVars, loggerVars,
             syncVars, writevVars, moreVars>>
\* what a blocking session leaves alone, beside its Backoff and its queue
notSync == <<mergerVars, ringVars, runnerVars, loggerVars, writev_errno,
             since_reset, blog, s_pc, slog, writevVars, moreVars>>
\* what a call of io::WritevAll leaves alone
notWritev == <<mergerVars, ringVars, sessionVars, runnerVars, loggerVars,
               writev_errno, syncVars, moreVars>>
\* what the formatting of one line leaves alone
notItoa == <<coreVars, affinityVars, teardownVars>>
\* what CpuAffinity leaves alone
notAffinity == <<coreVars, itoaVars, teardownVars>>
\* what the shutdown sequence leaves alone
notTeardown == <<coreVars, itoaVars, affinityVars>>

vars == <<mergerVars, otherVars>>

prodVars == <<free_, ready_, held, published>>
locals == <<qi, now_, last_u, batch_entries, iov_cnt>>
hist == <<consumed, released, pushed, nextid>>
passHist == <<pass_heap, pass_len>>

MergerInit ==
  /\ free_ = [i \in Rings |-> RingCap]
  /\ ready_ = [i \in Rings |-> <<>>]
  /\ held = [i \in Rings |-> FALSE]
  /\ sessions_running = TRUE
  /\ published = 0
  /\ fd_ \in {-1, 3}
  /\ stop_requested_ = FALSE
  /\ last_emitted_u_ = 0
  /\ minheap_ = {}
  /\ pc = "ctor"
  /\ qi = 1
  /\ now_ = 0
  /\ last_u = 0
  /\ batch_entries = <<>>
  /\ iov_cnt = 0
  /\ clock = 0
  /\ out = <<>>
  /\ joined = FALSE
  /\ consumed = [i \in Rings |-> 0]
  /\ released = [i \in Rings |-> 0]
  /\ pushed = {}
  /\ nextid = 1
  /\ ev = "none"
  /\ pass_heap = {}
  /\ pass_len = 0

\* ------------------------------------------------------------ lockfree::Ring
\* boost::lockfree::spsc_queue<T, capacity<kCapacity>> holds kCapacity items;
\* push and pop are taken as atomic steps
\* mutant: the queue takes one item fewer than the ring has slots
QueueCapacityShort == RingCap - 1

QueueCapacity == RingCap

\* Ring(): free_ is pre-populated with Capacity slots
RingCtor == [free |-> [k \in 1..RingCap |-> k], ready |-> <<>>]

RingInit ==
  /\ ring = RingCtor
  /\ prod_held = {}
  /\ cons_held = {}
  /\ ret = [op |-> "none", ok |-> TRUE]
  /\ ncalls = 0
  /\ pub_log = <<>>
  /\ con_log = <<>>

\* ------------------------------------------------------------------ Backoff
\* mutant: the doubling is not capped
Backoff_NextUncapped(cur) == [v |-> cur, current_ms |-> cur * 2]

\* std::size_t Next(): returns current_ms and doubles it, capped at max_ms
Backoff_Next(cur) ==
  [v |-> cur, current_ms |-> IF max_ms < cur * 2 THEN max_ms ELSE cur * 2]

\* mutant: Reset() leaves current_ms as it is
Backoff_ResetKeeps(cur) == cur

\* void Reset() { current_ms = 200; }
Backoff_Reset(cur) == kFirstMs

\* Backoff backoff; at the top of Run, and the session's empty queue
SessionInit ==
  /\ current_ms = kFirstMs
  /\ since_reset = 0
  /\ blog = <<>>
  /\ s_pc = "connect"
  /\ queue_ = <<>>
  /\ nframes = 0
  /\ slog = <<>>

\* Run is entered with the options of ParseArgs; nothing is started yet
RunnerInit ==
  /\ r_pc = "args"
  /\ seconds = 0
  /\ deadline = None
  /\ r_clock = 0
  /\ sessions_started = 0
  /\ merger_started = FALSE
  /\ signaled = FALSE
  /\ exit_code = None
  /\ stop_at = None

\* FileLogger logger; no session is registered and the worker is not started
LoggerInit ==
  /\ fds_ = <<>>
  /\ ext_queues_ = <<>>
  /\ running_ = FALSE
  /\ lg_pc = "idle"
  /\ current = 0
  /\ fin_i = 0
  /\ drain_i = 0
  /\ lines = <<>>
  /\ files = <<>>
  /\ join_called = FALSE
  /\ lg_joined = FALSE
  /\ producing = TRUE
  /\ quiet_join = FALSE
  /\ lat_pushed = <<>>
  /\ lg_opened = <<>>
  /\ lg_failed = <<>>

\* SyncSession::Start(): the thread enters Run with a fresh stop token
SyncInit ==
  /\ st_stop = FALSE
  /\ y_pc = "top"
  /\ stop_seen = FALSE
  /\ y_conn = 0
  /\ y_ev = "none"
  /\ y_steps = <<>>

\* io::WritevAll has not been called
WritevInit ==
  /\ w_pc = "idle"
  /\ w_iov = <<>>
  /\ w_file = <<>>
  /\ w_all = <<>>
  /\ w_err = FALSE
  /\ w_seen = {}

ItoaInit ==
  /\ it_ev = [arrival_ms |-> 0, event_ms |-> 0]
  /\ it_line = <<>>

AffinityInit ==
  /\ m_ = 0
  /\ used_ = <<>>
  /\ rr_idx_ = 0
  /\ a_pc = [t \in 1..AffThreads |-> "idle"]
  /\ opt = [t \in 1..AffThreads |-> None]
  /\ chosen = [t \in 1..AffThreads |-> -1]
  /\ a_ret = [t \in 1..AffThreads |-> None]
  /\ npicks = 0
  /\ nresets = 0

TeardownInit ==
  /\ td_mode = "none"
  /\ t_pc = "run"
  /\ ioc_stopped = FALSE
  /\ wk = "idle"
  /\ sessions_alive = TRUE
  /\ nhandlers = 0
  /\ td_late = FALSE

\* everything but the merger and its rings
RestInit ==
  /\ WritevInit
  /\ SyncInit
  /\ RingInit
  /\ SessionInit
  /\ RunnerInit
  /\ LoggerInit
  /\ ItoaInit
  /\ AffinityInit
  /\ TeardownInit
  /\ writev_errno = "none"

Init ==
  /\ MergerInit
  /\ RestInit

\* ---------------------------------------------------------------- helpers
Inc(f, i) == [f EXCEPT ![i] = @ + 1]

\* number of entries of the sequence es that came from ring i
RECURSIVE CountSrc(_, _)
CountSrc(es, i) ==
  IF es = <<>> THEN 0
  ELSE (IF Head(es).src = i THEN 1 ELSE 0) + CountSrc(Tail(es), i)

\* mutant: the slots of a batch are released only when its write succeeded
ReleaseBatchOnSuccess(fr, es) ==
  [i \in Rings |->
     fr[i] + (IF writev_errno = "none" THEN CountSrc(es, i) ELSE 0)]

\* queues_[be.src]->release(std::move(be.buf)) for every entry of the batch
ReleaseBatch(fr, es) == [i \in Rings |-> fr[i] + CountSrc(es, i)]

\* mutant: the comparator is inverted (largest u on top)
MinCmpInverted(a, b) == a.u < b.u

\* MinCmp: a is ordered after b (smallest u is the top)
MinCmp(a, b) == a.u > b.u

\* the entries minheap_.top() may return
Tops(h) == {e \in h : \A f \in h : ~MinCmp(e, f)}

\* mutant: only the first ring is looked at
AllQueuesEmptyFirst(rdy) == Len(rdy[1]) = 0

\* mutant: the test of ready_size() is inverted
AllQueuesEmptyInverted(rdy) == \A i \in Rings : Len(rdy[i]) # 0

\* bool AllQueuesEmpty() const
AllQueuesEmpty(rdy) == \A i \in Rings : Len(rdy[i]) = 0

\* mutant: the stop flag is not looked at
ShouldDrainUnasked(stop, rdy) == AllQueuesEmpty(rdy)

\* if (stop_requested_.load() && AllQueuesEmpty())
ShouldDrain(stop, rdy) == stop /\ AllQueuesEmpty(rdy)

\* mutant: u equal to last_emitted_u_ is let through
LateAtPushStrict(u, last) == u < last

\* if (u <= last_emitted_u_) continue;
LateAtPush(u, last) == u <= last

\* if (top.u <= last_u) { pop; continue; }
DupAtPop(e, lu) == e.u <= lu

\* mutant: an entry is held back whatever the time
HeldBackAlways(nw, e) == TRUE

\* mutant: the hold-back comparison is reversed
HeldBackReversed(nw, e) == nw - e.first_seen > kHoldback_

\* if (now - top.first_seen < kHoldback_) break;
HeldBack(nw, e) == nw - e.first_seen < kHoldback_

\* mutant: the batch is written once the array has been overrun
BatchFullLate(cnt) == cnt > kIovMax

\* if (iov_cnt >= 128)
BatchFull(cnt) == cnt >= kIovMax

\* while (!minheap_.empty() && iov_cnt <= 126)
DrainRoom(cnt) == cnt <= kIovMax - 2

\* mutant: last_emitted_u_ is assigned on every pass from a batch-local
\* maximum that starts at 0
AdvanceLastReset(cnt, lu, old) == IF cnt > 0 THEN lu ELSE 0

\* if (iov_cnt > 0) { ...; last_emitted_u_ = last_u; }
AdvanceLast(cnt, lu, old) == IF cnt > 0 THEN lu ELSE old

\* iov[iov_cnt++] = {b.data(), b.size()}; iov[iov_cnt++] = {&newline, 1};
\* the array as it stands when the batch holds the entries es
IovOf(es) ==
  [k \in 1..(2 * Len(es)) |->
     IF k % 2 = 1 THEN es[(k + 1) \div 2].buf ELSE <<"\n">>]

\* io::WritevAll(fd_, iov, iov_cnt): one line per entry, in batch order; when
\* writev fails with an error other than EINTR / EAGAIN the loop is left and
\* nothing is reported to the caller
WritevAll(file, es, by, nw) ==
  IF writev_errno = "none"
  THEN file \o [k \in 1..Len(es) |->
                 [e |-> es[k], by |-> by, at |-> nw,
                  text |-> IovOf(es)[2 * k - 1] \o IovOf(es)[2 * k]]]
  ELSE file

\* Clock::now(): steady_clock is read; it has advanced by any number of
\* ticks since the last reading c
ClockNow(c) == {t \in c..MaxNow : (t - c) % TickMs = 0}

\* ---------------------------------------------------------------- sessions
\* Producer: acquire(out); the sessions receive at most `frames` frames
Acquire(i, frames) ==
  /\ sessions_running
  /\ ~held[i]
  /\ published + Cardinality({j \in Rings : held[j]}) < frames
  /\ free_[i] > 0
  /\ free_' = [free_ EXCEPT ![i] = @ - 1]
  /\ held' = [held EXCEPT ![i] = TRUE]
  /\ UNCHANGED <<ready_, sessions_running, published, fd_, stop_requested_,
                 last_emitted_u_, minheap_, pc, locals, clock, out, joined,
                 hist, ev>>
  /\ UNCHANGED <<passHist, otherVars>>

\* Producer: fill out, publish(std::move(out))
Publish(i, p, frames) ==
  /\ sessions_running
  /\ held[i]
  /\ published < frames
  /\ ready_' = [ready_ EXCEPT ![i] = Append(@, p)]
  /\ held' = [held EXCEPT ![i] = FALSE]
  /\ published' = published + 1
  /\ UNCHANGED <<free_, sessions_running, fd_, stop_requested_,
                 last_emitted_u_, minheap_, pc, locals, clock, out, joined,
                 hist, ev>>
  /\ UNCHANGED <<passHist, otherVars>>

\* sessions.clear(): the sessions stop producing
StopSessions ==
  /\ sessions_running
  /\ sessions_running' = FALSE
  /\ UNCHANGED <<prodVars, fd_, stop_requested_, last_emitted_u_, minheap_,
                 pc, locals, clock, out, joined, hist, ev>>
  /\ UNCHANGED <<passHist, otherVars>>

\* ------------------------------------------------------------------ runner
\* if (!merger.OpenOk()) return 1;
OpenFail ==
  /\ pc = "ctor"
  /\ fd_ = -1
  /\ pc' = "notstarted"
  /\ UNCHANGED <<prodVars, sessions_running, fd_, stop_requested_,
                 last_emitted_u_, minheap_, locals, clock, out, joined, hist,
                 ev>>
  /\ UNCHANGED <<passHist, otherVars>>

\* merger.Start(): the worker enters Run()
Start ==
  /\ pc = "ctor"
  /\ fd_ # -1
  /\ pc' = "ingest"
  /\ qi' = 1
  /\ UNCHANGED <<prodVars, sessions_running, fd_, stop_requested_,
                 last_emitted_u_, minheap_, now_, last_u, batch_entries,
                 iov_cnt, clock, out, joined, hist, ev>>
  /\ UNCHANGED <<passHist, otherVars>>

\* Join(): stop_requested_.store(true).  The runner calls it after
\* sessions.clear(); when the open failed, ~StreamMerger calls it on return 1
Join ==
  /\ \/ pc = "notstarted"
     \/ pc # "ctor" /\ ~sessions_running
  /\ ~stop_requested_
  /\ stop_requested_' = TRUE
  /\ UNCHANGED <<prodVars, sessions_running, fd_, last_emitted_u_, minheap_,
                 pc, locals, clock, out, joined, hist, ev>>
  /\ UNCHANGED <<passHist, otherVars>>

\* Join(): worker_.join() returns once Run() has returned
JoinReturn ==
  /\ stop_requested_
  /\ ~joined
  /\ pc \in {"done", "notstarted"}
  /\ joined' = TRUE
  /\ UNCHANGED <<prodVars, sessions_running, fd_, stop_requested_,
                 last_emitted_u_, minheap_, pc, locals, clock, out, hist,
                 ev>>
  /\ UNCHANGED <<passHist, otherVars>>

\* ~StreamMerger: Join(); if (fd_ != -1) { ::close(fd_); fd_ = -1; }
Destroy ==
  /\ joined
  /\ fd_ # -1
  /\ fd_' = -1
  /\ UNCHANGED <<prodVars, sessions_running, stop_requested_, last_emitted_u_,
                 minheap_, pc, locals, clock, out, joined, hist, ev>>
  /\ UNCHANGED <<passHist, otherVars>>

\* ------------------------------------------------------------ merger worker
\* IngestQueues: one iteration of `while (queues_[i]->consume(m))`
IngestStep ==
  /\ pc = "ingest"
  /\ ready_[qi] # <<>>
  /\ LET m == Head(ready_[qi])
         ou == ParsedU[m]
     IN /\ ready_' = [ready_ EXCEPT ![qi] = Tail(@)]
        /\ consumed' = Inc(consumed, qi)
        /\ nextid' = nextid + 1
        /\ IF ou = None
           THEN /\ ev' = "drop_parse"
                /\ UNCHANGED <<minheap_, pushed, clock>>
           ELSE IF LateAtPush(ou, last_emitted_u_)
           THEN /\ ev' = "drop_late"
                /\ UNCHANGED <<minheap_, pushed, clock>>
           ELSE /\ clock' \in ClockNow(clock)
                /\ minheap_' = minheap_ \cup
                     {[u |-> ou, first_seen |-> clock', src |-> qi,
                       buf |-> m, id |-> nextid]}
                /\ pushed' = pushed \cup {[u |-> ou, pos |-> Len(out)]}
                /\ ev' = "push"
  /\ UNCHANGED <<free_, held, sessions_running, published, fd_,
                 stop_requested_, last_emitted_u_, pc, locals, out, joined,
                 released>>
  /\ UNCHANGED <<passHist, otherVars>>

\* IngestQueues: consume(m) returned false, next ring; after the last ring
\* FlushReady starts: now = Clock::now(), last_u = last_emitted_u_
IngestNext ==
  /\ pc = "ingest"
  /\ ready_[qi] = <<>>
  /\ IF qi < NumQueues
     THEN /\ qi' = qi + 1
          /\ UNCHANGED <<pc, now_, last_u, batch_entries, iov_cnt, clock,
                         passHist>>
     ELSE /\ pc' = "flush"
          /\ qi' = 1
          /\ clock' \in ClockNow(clock)
          /\ now_' = clock'
          /\ last_u' = last_emitted_u_
          /\ batch_entries' = <<>>
          /\ iov_cnt' = 0
          /\ pass_heap' = minheap_
          /\ pass_len' = Len(out)
  /\ ev' = "none"
  /\ UNCHANGED <<prodVars, sessions_running, fd_, stop_requested_,
                 last_emitted_u_, minheap_, out, joined, hist>>
  /\ UNCHANGED otherVars

\* FlushReady loop: top.u <= last_u, pop and continue
FlushDrop ==
  /\ pc = "flush"
  /\ \E e \in Tops(minheap_) :
       /\ DupAtPop(e, last_u)
       /\ minheap_' = minheap_ \ {e}
  /\ ev' = "none"
  /\ UNCHANGED <<prodVars, sessions_running, fd_, stop_requested_,
                 last_emitted_u_, pc, locals, clock, out, joined, hist>>
  /\ UNCHANGED <<passHist, otherVars>>

\* FlushReady loop: pop the top into the batch; a full batch is written and
\* its slots released at once
FlushTake ==
  /\ pc = "flush"
  /\ \E e \in Tops(minheap_) :
       /\ ~DupAtPop(e, last_u)
       /\ ~HeldBack(now_, e)
       /\ minheap_' = minheap_ \ {e}
       /\ last_u' = e.u
       /\ LET es == Append(batch_entries, e) IN
          IF BatchFull(iov_cnt + 2)
          THEN /\ out' = WritevAll(out, es, "flush", now_)
               /\ free_' = ReleaseBatch(free_, es)
               /\ released' = ReleaseBatch(released, es)
               /\ iov_cnt' = 0
               /\ batch_entries' = <<>>
               /\ ev' = "none"
          ELSE /\ iov_cnt' = iov_cnt + 2
               /\ batch_entries' = es
               /\ ev' = "none"
               /\ UNCHANGED <<out, free_, released>>
  /\ UNCHANGED <<ready_, held, published, sessions_running, fd_,
                 stop_requested_, last_emitted_u_, pc, qi, now_, clock, joined,
                 consumed, pushed, nextid>>
  /\ UNCHANGED <<passHist, otherVars>>

\* FlushReady: the loop ends (heap empty, or the top is held back); the rest
\* of the batch is written and last_emitted_u_ updated; the locals are gone
FlushEnd ==
  /\ pc = "flush"
  /\ \/ minheap_ = {}
     \/ \E e \in Tops(minheap_) : ~DupAtPop(e, last_u) /\ HeldBack(now_, e)
  /\ IF iov_cnt > 0
     THEN /\ out' = WritevAll(out, batch_entries, "flush", now_)
          /\ free_' = ReleaseBatch(free_, batch_entries)
          /\ released' = ReleaseBatch(released, batch_entries)
          /\ ev' = "none"
     ELSE /\ ev' = "none"
          /\ UNCHANGED <<out, free_, released>>
  /\ last_emitted_u_' = AdvanceLast(iov_cnt, last_u, last_emitted_u_)
  /\ pc' = "check"
  /\ now_' = 0
  /\ last_u' = 0
  /\ batch_entries' = <<>>
  /\ iov_cnt' = 0
  /\ pass_heap' = {}
  /\ pass_len' = 0
  /\ UNCHANGED <<ready_, held, published, sessions_running, fd_,
                 stop_requested_, minheap_, qi, clock, joined, consumed,
                 pushed, nextid>>
  /\ UNCHANGED otherVars

\* Run: if (stop_requested_ && AllQueuesEmpty()) DrainAll, else yield and loop
Check ==
  /\ pc = "check"
  /\ IF ShouldDrain(stop_requested_, ready_)
     THEN pc' = "drain"
     ELSE pc' = "ingest"
  /\ ev' = "none"
  /\ UNCHANGED <<prodVars, sessions_running, fd_, stop_requested_,
                 last_emitted_u_, minheap_, locals, clock, out, joined, hist>>
  /\ UNCHANGED <<passHist, otherVars>>

\* DrainAll outer loop: heap empty, return; else start a batch
DrainOuter ==
  /\ pc = "drain"
  /\ IF minheap_ = {}
     THEN /\ pc' = "done"
          /\ UNCHANGED <<last_u, batch_entries, iov_cnt, passHist>>
     ELSE /\ pc' = "drain_batch"
          /\ iov_cnt' = 0
          /\ last_u' = last_emitted_u_
          /\ batch_entries' = <<>>
          /\ pass_heap' = minheap_
          /\ pass_len' = Len(out)
  /\ ev' = "none"
  /\ UNCHANGED <<prodVars, sessions_running, fd_, stop_requested_,
                 last_emitted_u_, minheap_, qi, now_, clock, out, joined, hist>>
  /\ UNCHANGED otherVars

\* DrainAll inner loop: pop the top; batch it if e.u > last_u
DrainPop ==
  /\ pc = "drain_batch"
  /\ DrainRoom(iov_cnt)
  /\ \E e \in Tops(minheap_) :
       /\ minheap_' = minheap_ \ {e}
       /\ IF ~DupAtPop(e, last_u)
          THEN /\ iov_cnt' = iov_cnt + 2
               /\ last_u' = e.u
               /\ batch_entries' = Append(batch_entries, e)
               /\ ev' = "none"
          ELSE /\ ev' = "none"
               /\ UNCHANGED <<iov_cnt, last_u, batch_entries>>
  /\ UNCHANGED <<prodVars, sessions_running, fd_, stop_requested_,
                 last_emitted_u_, pc, qi, now_, clock, out, joined, hist>>
  /\ UNCHANGED <<passHist, otherVars>>

\* DrainAll: the inner loop ends; the batch is written, last_emitted_u_
\* updated; the locals of the outer iteration are gone
DrainWrite ==
  /\ pc = "drain_batch"
  /\ minheap_ = {} \/ ~DrainRoom(iov_cnt)
  /\ IF iov_cnt > 0
     THEN /\ out' = WritevAll(out, batch_entries, "drain", clock)
          /\ free_' = ReleaseBatch(free_, batch_entries)
          /\ released' = ReleaseBatch(released, batch_entries)
          /\ ev' = "none"
     ELSE /\ ev' = "none"
          /\ UNCHANGED <<out, free_, released>>
  /\ last_emitted_u_' = AdvanceLast(iov_cnt, last_u, last_emitted_u_)
  /\ pc' = "drain"
  /\ last_u' = 0
  /\ batch_entries' = <<>>
  /\ iov_cnt' = 0
  /\ pass_heap' = {}
  /\ pass_len' = 0
  /\ UNCHANGED <<ready_, held, published, sessions_running, fd_,
                 stop_requested_, minheap_, qi, now_, clock, joined, consumed,
                 pushed, nextid>>
  /\ UNCHANGED otherVars

Sessions(frames) ==
  \E i \in Rings :
    Acquire(i, frames) \/ \E p \in Payloads : Publish(i, p, frames)

Runner ==
  \/ StopSessions
  \/ OpenFail
  \/ Start
  \/ Join
  \/ JoinReturn
  \/ Destroy

Merger ==
  \/ IngestStep
  \/ IngestNext
  \/ FlushDrop
  \/ FlushTake
  \/ FlushEnd
  \/ Check
  \/ DrainOuter
  \/ DrainPop
  \/ DrainWrite

Next ==
  \/ Sessions(MaxPublish)
  \/ Runner
  \/ Merger

Spec == Init /\ [][Next]_vars

\* The merger thread is scheduled fairly (it is a running thread that only
\* yields), and a Join() whose worker has exited returns.
LiveNext ==
  \/ Sessions(LivePublish)
  \/ Runner
  \/ Merger

FairSpec ==
  Init /\ [][LiveNext]_vars /\ WF_vars(Merger) /\ WF_vars(JoinReturn)

\* ------------------------------------------- the string-buffered merger
\* include/stream_merger.hpp: one pass of its FlushReady and one round of
\* its DrainAll, as functions of the heap h, the clock reading nw and
\* last_emitted_u_.  The buffer is the sequence of the lines appended; a
\* result is the set of outcomes over the orders in which the heap may
\* yield entries of equal u.
\* buffer.reserve(64 * 512)
kBufferReserve == 32768

RECURSIVE BufferSize(_)
BufferSize(buffer) ==
  IF buffer = <<>> THEN 0 ELSE Len(Head(buffer)) + BufferSize(Tail(buffer))

\* while (!minheap_.empty() && buffer.size() < buffer.capacity() - 2)
OldLoopGoesOn(h, buffer) ==
  h # {} /\ BufferSize(buffer) < kBufferReserve - 2

RECURSIVE OldFlushLoop(_, _, _, _)
OldFlushLoop(h, nw, lu, buffer) ==
  IF ~OldLoopGoesOn(h, buffer)
  THEN {[buffer |-> buffer, last_u |-> lu]}
  ELSE UNION {IF e.u <= lu
              THEN OldFlushLoop(h \ {e}, nw, lu, buffer)
              ELSE IF nw - e.first_seen < kHoldback_
              THEN {[buffer |-> buffer, last_u |-> lu]}
              ELSE OldFlushLoop(h \ {e}, nw, e.u,
                                Append(buffer, e.buf \o <<"\n">>)) :
              e \in Tops(h)}

\* if (!buffer.empty()) { io::WriteAll(...); last_emitted_u_ = last_u; }
OldWrite(r, last) ==
  [lines |-> r.buffer, last |-> IF r.buffer # <<>> THEN r.last_u ELSE last]

OldFlushReady(h, nw, last) ==
  {OldWrite(r, last) : r \in OldFlushLoop(h, nw, last, <<>>)}

RECURSIVE OldDrainLoop(_, _, _)
OldDrainLoop(h, lu, buffer) ==
  IF ~OldLoopGoesOn(h, buffer)
  THEN {[buffer |-> buffer, last_u |-> lu]}
  ELSE UNION {IF e.u > lu
              THEN OldDrainLoop(h \ {e}, e.u,
                                Append(buffer, e.buf \o <<"\n">>))
              ELSE OldDrainLoop(h \ {e}, lu, buffer) : e \in Tops(h)}

\* one round of `while (!minheap_.empty())` in DrainAll
OldDrainRound(h, last) ==
  {OldWrite(r, last) : r \in OldDrainLoop(h, last, <<>>)}

\* ------------------------------------------------- the passes of the merger
\* The merger some way into a run: the sessions have published n payloads
\* with update ids us[k], in turn on the rings, IngestQueues has pushed them
\* at the clock readings fs[k], and nothing has been written yet.  The
\* clock's origin is the last of those readings.
PassEntry(k, u, f) ==
  [u |-> u, first_seen |-> f, src |-> ((k - 1) % NumQueues) + 1,
   buf |-> PayloadU(u), id |-> k]

PassMergerInit ==
  \E n \in {0, PassHeap} :
  \E us \in [1..n -> 1..PassU], fs \in [1..n -> {-kHoldback_, 0}] :
    /\ \A j, k \in 1..n : j < k => fs[j] <= fs[k]
    /\ minheap_ = {PassEntry(k, us[k], fs[k]) : k \in 1..n}
    /\ free_ = [i \in Rings |->
                  RingCap - Cardinality({k \in 1..n : PassEntry(k, 1, 0).src = i})]
    /\ consumed = [i \in Rings |->
                     Cardinality({k \in 1..n : PassEntry(k, 1, 0).src = i})]
    /\ pushed = {[u |-> us[k], pos |-> 0] : k \in 1..n}
    /\ published = n
    /\ nextid = n + 1
    /\ ready_ = [i \in Rings |-> <<>>]
    /\ held = [i \in Rings |-> FALSE]
    /\ sessions_running = TRUE
    /\ fd_ = 3
    /\ stop_requested_ = FALSE
    /\ last_emitted_u_ = 0
    /\ pc = "ingest"
    /\ qi = 1
    /\ now_ = 0
    /\ last_u = 0
    /\ batch_entries = <<>>
    /\ iov_cnt = 0
    /\ clock = 0
    /\ out = <<>>
    /\ joined = FALSE
    /\ released = [i \in Rings |-> 0]
    /\ ev = "none"
    /\ pass_heap = {}
    /\ pass_len = 0

PassInit == PassMergerInit /\ RestInit

\* the worker with nothing more to ingest, and the runner shutting down
PassMerger ==
  \/ IngestNext
  \/ FlushDrop
  \/ FlushTake
  \/ FlushEnd
  \/ Check
  \/ DrainOuter
  \/ DrainPop
  \/ DrainWrite

PassNext ==
  \/ PassMerger
  \/ StopSessions
  \/ Join
  \/ JoinReturn

PassSpec == PassInit /\ [][PassNext]_vars

\* The worker keeps being scheduled and the steady clock keeps advancing
\* between its readings.
HoldSpec ==
  /\ PassInit
  /\ [][PassNext]_vars
  /\ WF_vars(PassMerger)
  /\ SF_vars(IngestNext /\ clock' > clock)

\* the file system starts to refuse writes (EIO, ENOSPC, ...)
WritevFails ==
  /\ writev_errno = "none"
  /\ writev_errno' = "EIO"
  /\ UNCHANGED notDisk

\* the file system takes writes again
WritevRecovers ==
  /\ writev_errno # "none"
  /\ writev_errno' = "none"
  /\ UNCHANGED notDisk

\* The merger with a file system that may refuse writes.
ErrNext ==
  \/ LiveNext
  \/ WritevFails
  \/ WritevRecovers

ErrSpec == Init /\ [][ErrNext]_vars

\* ------------------------------------------------- one ring, both its users
NoSlot == 0

\* mutant: push puts the item at the front
QueuePushFront(q, x) ==
  IF Len(q) < QueueCapacity
  THEN [ok |-> TRUE, q |-> <<x>> \o q]
  ELSE [ok |-> FALSE, q |-> q]

\* spsc_queue::push: false, and nothing stored, when the queue is full
QueuePush(q, x) ==
  IF Len(q) < QueueCapacity
  THEN [ok |-> TRUE, q |-> Append(q, x)]
  ELSE [ok |-> FALSE, q |-> q]

\* spsc_queue::pop: false, and nothing taken, when the queue is empty
QueuePop(q) ==
  IF q = <<>>
  THEN [ok |-> FALSE, q |-> q, x |-> NoSlot]
  ELSE [ok |-> TRUE, q |-> Tail(q), x |-> Head(q)]

\* mutant: acquire hands out the front slot and leaves it in free_
acquirePeek(r) ==
  IF r.free = <<>>
  THEN [ok |-> FALSE, ring |-> r, out |-> NoSlot]
  ELSE [ok |-> TRUE, ring |-> r, out |-> Head(r.free)]

\* bool acquire(T &out) { return free_.pop(out); }
acquire(r) ==
  LET p == QueuePop(r.free)
  IN [ok |-> p.ok, ring |-> [r EXCEPT !.free = p.q], out |-> p.x]

\* bool publish(T &&item) { return ready_.push(std::move(item)); }
publish(r, item) ==
  LET p == QueuePush(r.ready, item)
  IN [ok |-> p.ok, ring |-> [r EXCEPT !.ready = p.q]]

\* mutant: consume pops free_
consumeFree(r) ==
  LET p == QueuePop(r.free)
  IN [ok |-> p.ok, ring |-> [r EXCEPT !.free = p.q],
      out |-> [slot |-> p.x, val |-> 0]]

\* bool consume(T &out) { return ready_.pop(out); }
consume(r) ==
  LET p == QueuePop(r.ready)
  IN [ok |-> p.ok, ring |-> [r EXCEPT !.ready = p.q], out |-> p.x]

\* bool release(T &&item) { return free_.push(std::move(item)); }
release(r, slot) ==
  LET p == QueuePush(r.free, slot)
  IN [ok |-> p.ok, ring |-> [r EXCEPT !.free = p.q]]

\* Producer: acquire(out)
ProducerAcquire ==
  /\ ncalls < MaxRingCalls
  /\ LET a == acquire(ring) IN
       /\ ring' = a.ring
       /\ prod_held' = IF a.ok THEN prod_held \cup {a.out} ELSE prod_held
       /\ ret' = [op |-> "acquire", ok |-> a.ok]
  /\ ncalls' = ncalls + 1
  /\ UNCHANGED <<cons_held, pub_log, con_log, notRing>>

\* Producer: fill out, publish(std::move(out)); the item carries the ordinal
\* of its publication
ProducerPublish ==
  /\ ncalls < MaxRingCalls
  /\ \E s \in prod_held :
       LET item == [slot |-> s, val |-> Len(pub_log) + 1]
           p == publish(ring, item)
       IN /\ ring' = p.ring
          /\ prod_held' = IF p.ok THEN prod_held \ {s} ELSE prod_held
          /\ pub_log' = IF p.ok THEN Append(pub_log, item) ELSE pub_log
          /\ ret' = [op |-> "publish", ok |-> p.ok]
  /\ ncalls' = ncalls + 1
  /\ UNCHANGED <<cons_held, con_log, notRing>>

\* Consumer: consume(out)
ConsumerConsume ==
  /\ ncalls < MaxRingCalls
  /\ LET c == consume(ring) IN
       /\ ring' = c.ring
       /\ cons_held' = IF c.ok THEN cons_held \cup {c.out} ELSE cons_held
       /\ con_log' = IF c.ok THEN Append(con_log, c.out) ELSE con_log
       /\ ret' = [op |-> "consume", ok |-> c.ok]
  /\ ncalls' = ncalls + 1
  /\ UNCHANGED <<prod_held, pub_log, notRing>>

\* Consumer: process out, release(std::move(out))
ConsumerRelease ==
  /\ ncalls < MaxRingCalls
  /\ \E m \in cons_held :
       LET p == release(ring, m.slot)
       IN /\ ring' = p.ring
          /\ cons_held' = IF p.ok THEN cons_held \ {m} ELSE cons_held
          /\ ret' = [op |-> "release", ok |-> p.ok]
  /\ ncalls' = ncalls + 1
  /\ UNCHANGED <<prod_held, pub_log, con_log, notRing>>

RingNext ==
  \/ ProducerAcquire
  \/ ProducerPublish
  \/ ConsumerConsume
  \/ ConsumerRelease

RingSpec == Init /\ [][RingNext]_vars

\* ----------------------------------------------------- Backoff on its own
\* any caller: backoff.Next()
BackoffCallNext ==
  /\ Len(blog) < MaxBackoffCalls
  /\ LET n == Backoff_Next(current_ms) IN
       /\ current_ms' = n.current_ms
       /\ blog' = Append(blog, [v |-> n.v, k |-> since_reset + 1])
  /\ since_reset' = since_reset + 1
  /\ UNCHANGED <<s_pc, queue_, nframes, slog, notSession>>

\* any caller: backoff.Reset()
BackoffCallReset ==
  /\ since_reset > 0
  /\ current_ms' = Backoff_Reset(current_ms)
  /\ since_reset' = 0
  /\ UNCHANGED <<blog, s_pc, queue_, nframes, slog, notSession>>

BackoffNext ==
  \/ BackoffCallNext
  \/ BackoffCallReset

BackoffSpec == Init /\ [][BackoffNext]_vars

\* ------------------------------------------------------- one session's Run
\* spsc_queue<Message, capacity<kMessageQueueCapacity>>::push
MessagePush(q, m) ==
  IF Len(q) < MessageQueueCap
  THEN [ok |-> TRUE, q |-> Append(q, m)]
  ELSE [ok |-> FALSE, q |-> q]

LogEntry(e, ms, ok) == [ev |-> e, ms |-> ms, ok |-> ok]

\* FastConnectSequence: a stage fails, OnError reports it
ConnectFail ==
  /\ s_pc = "connect"
  /\ Len(slog) < MaxSessionLog
  /\ s_pc' = "onerror"
  /\ slog' = Append(slog, LogEntry("fail", 0, TRUE))
  /\ UNCHANGED <<current_ms, since_reset, blog, queue_, nframes, notSession>>

\* the wait of the failed stage, backoff.Next() long; FastConnectSequence
\* returns false and Run continues with the next attempt
OnErrorWait ==
  /\ s_pc = "onerror"
  /\ LET n == Backoff_Next(current_ms) IN
       /\ current_ms' = n.current_ms
       /\ slog' = Append(slog, LogEntry("wait", n.v, TRUE))
  /\ s_pc' = "connect"
  /\ UNCHANGED <<since_reset, blog, queue_, nframes, notSession>>

\* FastConnectSequence returns true; backoff.Reset(); ReadLoop starts
ConnectOk ==
  /\ s_pc = "connect"
  /\ Len(slog) < MaxSessionLog
  /\ current_ms' = Backoff_Reset(current_ms)
  /\ slog' = Append(slog, LogEntry("ok", current_ms', TRUE))
  /\ s_pc' = "read"
  /\ UNCHANGED <<since_reset, blog, queue_, nframes, notSession>>

\* ReadLoop: a frame is read and handed over with queue_->push(m), whose
\* result is not looked at
ReadFrame ==
  /\ s_pc = "read"
  /\ Len(slog) < MaxSessionLog
  /\ nframes' = nframes + 1
  /\ LET p == MessagePush(queue_, nframes + 1) IN
       /\ queue_' = p.q
       /\ slog' = Append(slog, LogEntry("frame", 0, p.ok))
  /\ UNCHANGED <<current_ms, since_reset, blog, s_pc, notSession>>

\* ReadLoop: the read fails, ReadLoop returns ec
ReadError ==
  /\ s_pc = "read"
  /\ Len(slog) < MaxSessionLog
  /\ s_pc' = "reconnect"
  /\ slog' = Append(slog, LogEntry("read_err", 0, TRUE))
  /\ UNCHANGED <<current_ms, since_reset, blog, queue_, nframes, notSession>>

\* Run: the wait after ReadLoop, backoff.Next() long, then the next attempt
ReconnectWait ==
  /\ s_pc = "reconnect"
  /\ LET n == Backoff_Next(current_ms) IN
       /\ current_ms' = n.current_ms
       /\ slog' = Append(slog, LogEntry("wait", n.v, TRUE))
  /\ s_pc' = "connect"
  /\ UNCHANGED <<since_reset, blog, queue_, nframes, notSession>>

\* the merger's IngestQueues: queues_[i]->pop(m)
MessagePop ==
  /\ queue_ # <<>>
  /\ queue_' = Tail(queue_)
  /\ UNCHANGED <<current_ms, since_reset, blog, s_pc, nframes, slog,
                 notSession>>

SessionNext ==
  \/ ConnectFail
  \/ OnErrorWait
  \/ ConnectOk
  \/ ReadFrame
  \/ ReadError
  \/ ReconnectWait
  \/ MessagePop

SessionSpec == Init /\ [][SessionNext]_vars

\* ------------------------------------------------------- Run(opt, mode)
\* ParseArgs: opt.seconds = max(0, atoi(argv)), 0 without -t
ParseArgs ==
  /\ r_pc = "args"
  /\ seconds' \in 0..MaxSeconds
  /\ r_pc' = "start_sessions"
  /\ UNCHANGED <<deadline, r_clock, sessions_started, merger_started,
                 signaled, exit_code, stop_at, notRunner>>

\* for (auto &s : sessions) s->Start();
StartSession ==
  /\ r_pc = "start_sessions"
  /\ sessions_started < NumQueues
  /\ sessions_started' = sessions_started + 1
  /\ UNCHANGED <<r_pc, seconds, deadline, r_clock, merger_started, signaled,
                 exit_code, stop_at, notRunner>>

\* StreamMerger merger{queues, opt.outFile}; if (!merger.OpenOk()) return 1;
\* else merger.Start()
MergerOpen ==
  /\ r_pc = "start_sessions"
  /\ sessions_started = NumQueues
  /\ IF fd_ = -1
     THEN /\ exit_code' = 1
          /\ r_pc' = "returned"
          /\ UNCHANGED merger_started
     ELSE /\ merger_started' = TRUE
          /\ r_pc' = "deadline"
          /\ UNCHANGED exit_code
  /\ UNCHANGED <<seconds, deadline, r_clock, sessions_started, signaled,
                 stop_at, notRunner>>

\* if (opt.seconds > 0) deadline = steady_clock::now() + seconds(opt.seconds)
SetDeadline ==
  /\ r_pc = "deadline"
  /\ deadline' = IF seconds > 0 THEN r_clock + seconds ELSE None
  /\ r_pc' = "wait"
  /\ UNCHANGED <<seconds, r_clock, sessions_started, merger_started,
                 signaled, exit_code, stop_at, notRunner>>

\* if (deadline.has_value()) { if (deadline > now) sleep_until(*deadline); }
\* the thread goes on at some time not before the deadline
WaitDeadline ==
  /\ r_pc = "wait"
  /\ IF deadline # None /\ deadline > r_clock
     THEN r_clock' \in deadline..(deadline + 1)
     ELSE UNCHANGED r_clock
  /\ r_pc' = "stop"
  /\ stop_at' = r_clock'
  /\ UNCHANGED <<seconds, deadline, sessions_started, merger_started,
                 signaled, exit_code, notRunner>>

\* reactor->Stop(); sessions.clear(); merger.Join(); logger.Join(); return 0
Shutdown ==
  /\ r_pc = "stop"
  /\ r_pc' = "returned"
  /\ exit_code' = 0
  /\ UNCHANGED <<seconds, deadline, r_clock, sessions_started,
                 merger_started, signaled, stop_at, notRunner>>

\* time passes while the main thread is between two steps
RunnerTick ==
  /\ r_pc \notin {"args", "returned"}
  /\ r_clock < MaxRunClock
  /\ r_clock' = r_clock + 1
  /\ UNCHANGED <<r_pc, seconds, deadline, sessions_started, merger_started,
                 signaled, exit_code, stop_at, notRunner>>

\* the process is sent SIGINT or SIGTERM; no handler is installed
Signal ==
  /\ r_pc \notin {"args", "returned"}
  /\ ~signaled
  /\ signaled' = TRUE
  /\ UNCHANGED <<r_pc, seconds, deadline, r_clock, sessions_started,
                 merger_started, exit_code, stop_at, notRunner>>

RunnerNext ==
  \/ ParseArgs
  \/ StartSession
  \/ MergerOpen
  \/ SetDeadline
  \/ WaitDeadline
  \/ Shutdown
  \/ RunnerTick
  \/ Signal

RunnerSpec == Init /\ [][RunnerNext]_vars

\* ------------------------------------------------------- SyncSession::Run
\* mutant: a recv deadline expiry ends ReadLoop like any other error
AfterTimeoutReturns(stop) == "after_read"

\* if (ec == timeout) { if (st.stop_requested()) return {}; continue; }
AfterTimeout(stop) == IF stop THEN "after_read" ELSE "read_top"

\* FastConnectSequence: the steps in the order of the calls
ConnectStepsTlsFirst ==
  <<"resolve", "connect", "tls_handshake", "sni", "nodelay", "configure",
    "ws_handshake">>

ConnectSteps ==
  <<"resolve", "connect", "sni", "nodelay", "tls_handshake", "configure",
    "ws_handshake">>

\* the steps whose result is tested: SetTcpNoDelay and ConfigureWebSocket
\* are called for effect only
FailableSteps == {"resolve", "connect", "sni", "tls_handshake", "ws_handshake"}

\* mutant: a failed connect attempt ends the session
AfterConnectFailBreaks == "exited"

\* if (!FastConnectSequence(ws, backoff)) continue;
AfterConnectFail == "top"

\* Run: for (;;) { if (st.stop_requested()) break; ...
SyncTop ==
  /\ y_pc = "top"
  /\ IF st_stop
     THEN y_pc' = "exited" /\ stop_seen' = TRUE
     ELSE y_pc' = "ws" /\ UNCHANGED stop_seen
  /\ UNCHANGED <<st_stop, y_conn, y_ev, current_ms, queue_, nframes, y_steps, notSync>>

\* Run: ioc, ssl_ctx and ws are built; if (st.stop_requested()) break;
\* otherwise FastConnectSequence(ws, backoff) is called
SyncAfterWs ==
  /\ y_pc = "ws"
  /\ IF st_stop
     THEN y_pc' = "exited" /\ stop_seen' = TRUE /\ UNCHANGED y_steps
     ELSE y_pc' = "connect" /\ y_steps' = <<>> /\ UNCHANGED stop_seen
  /\ UNCHANGED <<st_stop, y_conn, y_ev, current_ms, queue_, nframes, notSync>>

\* FastConnectSequence: the next step returns without error
SyncStepOk ==
  /\ y_pc = "connect"
  /\ Len(y_steps) < Len(ConnectSteps)
  /\ Len(y_steps) + 1 = Len(ConnectSteps) => y_conn < MaxConnects
  /\ y_steps' = Append(y_steps, [step |-> ConnectSteps[Len(y_steps) + 1],
                                 ok |-> TRUE])
  /\ UNCHANGED <<st_stop, y_pc, stop_seen, y_conn, y_ev, current_ms, queue_,
                 nframes, notSync>>

\* FastConnectSequence: the next step fails; OnError,
\* WaitSync(backoff.Next()), return false, and Run continues
SyncConnectFail ==
  /\ y_pc = "connect"
  /\ Len(y_steps) < Len(ConnectSteps)
  /\ ConnectSteps[Len(y_steps) + 1] \in FailableSteps
  /\ y_steps' = Append(y_steps, [step |-> ConnectSteps[Len(y_steps) + 1],
                                 ok |-> FALSE])
  /\ current_ms' = Backoff_Next(current_ms).current_ms
  /\ y_ev' = "fail"
  /\ y_pc' = AfterConnectFail
  /\ UNCHANGED <<st_stop, stop_seen, y_conn, queue_, nframes, notSync>>

\* FastConnectSequence returns true; backoff.Reset(); ReadLoop is entered
SyncConnectOk ==
  /\ y_pc = "connect"
  /\ Len(y_steps) = Len(ConnectSteps)
  /\ y_conn' = y_conn + 1
  /\ current_ms' = Backoff_Reset(current_ms)
  /\ y_ev' = "ok"
  /\ y_pc' = "read_top"
  /\ UNCHANGED <<st_stop, stop_seen, y_steps, queue_, nframes, notSync>>

\* ReadLoop: for (;;) { if (st.stop_requested()) return {}; ...
SyncReadTop ==
  /\ y_pc = "read_top"
  /\ IF st_stop
     THEN y_pc' = "after_read" /\ stop_seen' = TRUE
     ELSE y_pc' = "reading" /\ UNCHANGED stop_seen
  /\ UNCHANGED <<st_stop, y_conn, y_ev, current_ms, queue_, nframes, y_steps, notSync>>

\* ReadLoop: ws.read returns a frame within the deadline; queue_->push(m)
SyncReadFrame ==
  /\ y_pc = "reading"
  /\ nframes < MaxFrames
  /\ nframes' = nframes + 1
  /\ queue_' = MessagePush(queue_, nframes + 1).q
  /\ y_ev' = "frame"
  /\ y_pc' = "read_top"
  /\ UNCHANGED <<st_stop, stop_seen, y_conn, current_ms, y_steps, notSync>>

\* ReadLoop: the 200 ms deadline expires with no frame
SyncReadTimeout ==
  /\ y_pc = "reading"
  /\ y_ev' = "timeout"
  /\ y_pc' = AfterTimeout(st_stop)
  /\ stop_seen' = (stop_seen \/ st_stop)
  /\ UNCHANGED <<st_stop, y_conn, current_ms, queue_, nframes, y_steps, notSync>>

\* ReadLoop: ws.read fails with another error; return ec
SyncReadError ==
  /\ y_pc = "reading"
  /\ y_ev' = "error"
  /\ y_pc' = "after_read"
  /\ UNCHANGED <<st_stop, stop_seen, y_conn, current_ms, queue_, nframes,
                 y_steps, notSync>>

\* Run: ReadLoop has returned; retry::WaitSync(backoff.Next()); next pass
SyncAfterRead ==
  /\ y_pc = "after_read"
  /\ current_ms' = Backoff_Next(current_ms).current_ms
  /\ y_pc' = "top"
  /\ UNCHANGED <<st_stop, stop_seen, y_conn, y_ev, queue_, nframes, y_steps, notSync>>

\* ~SyncSession: jthread_.request_stop()
RequestStop ==
  /\ ~st_stop
  /\ st_stop' = TRUE
  /\ UNCHANGED <<y_pc, stop_seen, y_conn, y_ev, current_ms, queue_, nframes,
                 y_steps, notSync>>

SyncThread ==
  \/ SyncTop
  \/ SyncAfterWs
  \/ SyncStepOk
  \/ SyncConnectFail
  \/ SyncConnectOk
  \/ SyncReadTop
  \/ SyncReadFrame
  \/ SyncReadTimeout
  \/ SyncReadError
  \/ SyncAfterRead

SyncNext ==
  \/ SyncThread
  \/ RequestStop
  \/ MessagePop

\* The session's thread keeps being scheduled, and each of its blocking
\* calls (a connect stage, a sleep, a read with its deadline) returns.
SyncSpec == Init /\ [][SyncNext]_vars /\ WF_vars(SyncThread)

\* ------------------------------------------------------------ io::WritevAll
\* the bytes of a sequence of iovecs, in order
RECURSIVE Flatten(_)
Flatten(iov) == IF iov = <<>> THEN <<>> ELSE Head(iov) \o Flatten(Tail(iov))

\* mutant: a partly written iovec keeps its base and length
RECURSIVE AdvanceKeepsBase(_, _)
AdvanceKeepsBase(iov, n) ==
  IF n > 0 /\ Len(iov) > 0
  THEN IF n >= Len(iov[1])
       THEN AdvanceKeepsBase(Tail(iov), n - Len(iov[1]))
       ELSE iov
  ELSE iov

\* while (consumed > 0 && cnt > 0): a fully written iovec is stepped over
\* (++iov; --cnt), a partly written one has its base and length moved
RECURSIVE Advance(_, _)
Advance(iov, n) ==
  IF n > 0 /\ Len(iov) > 0
  THEN IF n >= Len(iov[1])
       THEN Advance(Tail(iov), n - Len(iov[1]))
       ELSE <<SubSeq(iov[1], n + 1, Len(iov[1]))>> \o Tail(iov)
  ELSE iov

\* a caller enters WritevAll with cnt iovecs of lens[k] bytes each; byte j of
\* iovec k is <<k, j>>
WritevCall(lens) ==
  /\ w_pc = "idle"
  /\ LET iov == [k \in 1..Len(lens) |-> [j \in 1..lens[k] |-> <<k, j>>]]
     IN /\ w_iov' = iov
        /\ w_all' = Flatten(iov)
  /\ w_pc' = "loop"
  /\ UNCHANGED <<w_file, w_err, w_seen, notWritev>>

\* while (cnt > 0): the loop is left when no iovec remains
WritevReturn ==
  /\ w_pc = "loop"
  /\ w_iov = <<>>
  /\ w_pc' = "returned"
  /\ UNCHANGED <<w_iov, w_file, w_all, w_err, w_seen, notWritev>>

\* n = writev(fd, iov, cnt) takes the first n of the remaining bytes
WritevSome(n) ==
  /\ w_pc = "loop"
  /\ w_iov # <<>>
  /\ n \in 1..Len(Flatten(w_iov))
  /\ w_file' = w_file \o SubSeq(Flatten(w_iov), 1, n)
  /\ w_iov' = Advance(w_iov, n)
  /\ w_seen' = w_seen \cup
       (IF \E k \in 1..Len(w_iov) : n = Len(Flatten(SubSeq(w_iov, 1, k)))
        THEN {"whole"} ELSE {"split"})
  /\ UNCHANGED <<w_pc, w_all, w_err, notWritev>>

\* n < 0 with errno EINTR (continue) or EAGAIN / EWOULDBLOCK (yield, continue)
WritevRetry(errno) ==
  /\ w_pc = "loop"
  /\ w_iov # <<>>
  /\ w_seen' = w_seen \cup {errno}
  /\ UNCHANGED <<w_pc, w_iov, w_file, w_all, w_err, notWritev>>

\* n < 0 with any other errno: break
WritevHardError ==
  /\ w_pc = "loop"
  /\ w_iov # <<>>
  /\ w_err' = TRUE
  /\ w_pc' = "returned"
  /\ UNCHANGED <<w_iov, w_file, w_all, w_seen, notWritev>>

IovLens == UNION {[1..c -> 1..MaxIovLen] : c \in 1..MaxIov}

WritevNext ==
  \/ \E lens \in IovLens : WritevCall(lens)
  \/ WritevReturn
  \/ \E n \in 1..(MaxIov * MaxIovLen) : WritevSome(n)
  \/ \E errno \in {"EINTR", "EAGAIN"} : WritevRetry(errno)
  \/ WritevHardError

\* writev on a file that takes bytes accepts some on one of the next calls
WritevSpec ==
  Init /\ [][WritevNext]_vars
       /\ WF_vars(\E n \in 1..(MaxIov * MaxIovLen) : WritevSome(n))
       /\ WF_vars(WritevReturn)

\* ---------------------------------------------------------------- FileLogger
\* the events the sessions push: arrival before the event time, and with it
LatencyEvents ==
  {[arrival_ms |-> 5, event_ms |-> 120], [arrival_ms |-> 7, event_ms |-> 7]}

\* ItoaFast: the digits of x > 0, most significant first
RECURSIVE ItoaDigits(_)
ItoaDigits(x) ==
  IF x = 0 THEN <<>>
  ELSE Append(ItoaDigits(x \div 10), DigitChars[(x % 10) + 1])

\* static uint16_t ItoaFast(std::int64_t v, char out[32])
ItoaFast(v) ==
  IF v = 0 THEN <<"0">>
  ELSE (IF v < 0 THEN <<"-">> ELSE <<>>) \o ItoaDigits(IF v < 0 THEN -v ELSE v)

\* std::int64_t, two's complement: the range and the value a result that
\* leaves it wraps to (the outcome of the subtract and negate instructions)
IntMin == -(2 ^ (IntBits - 1))
IntMax == 2 ^ (IntBits - 1) - 1
WrapInt(x) == ((x - IntMin) % (2 ^ IntBits)) + IntMin

\* std::abs(std::int64_t)
StdAbs(v) == IF v < 0 THEN WrapInt(-v) ELSE v

\* delta = arrival_ms - event_ms; ItoaFast(std::abs(delta)); then '\n'
LatencyLine(e) ==
  LET delta == WrapInt(e.arrival_ms - e.event_ms)
  IN Append(ItoaFast(StdAbs(delta)), "\n")

\* the lines of the model's events, tabulated
LineOf == [e \in LatencyEvents |-> LatencyLine(e)]

\* mutant: a new line goes in front of the batch
BatchLineFront(ls, l) == <<l>> \o ls

\* iov[cnt] = {linebuf[cnt], lens[cnt]}; ++cnt;
BatchLine(ls, l) == Append(ls, l)

\* io::WritevAll(fd, iov, cnt) on a latency file: every line, in batch order,
\* or nothing when writev fails
LogWritevAll(file, ls) == IF writev_errno = "none" THEN file \o ls ELSE file

\* mutant: the worker returns as soon as it has left the round-robin loop
AfterLoopExit == "exited"

\* RunLoop: after `break` comes the loop `for (i = 0; i < n; ++i) DrainQueue(i)`
AfterLoop == "final"

\* uint16_t AddSession(queue, path): open(path, O_APPEND ...) may fail
AddSession(ok) ==
  /\ lg_pc = "idle"
  /\ Len(fds_) < NumQueues
  /\ fds_' = Append(fds_, IF ok THEN Len(fds_) + 3 ELSE -1)
  /\ ext_queues_' = Append(ext_queues_, <<>>)
  /\ files' = Append(files, <<>>)
  /\ lat_pushed' = Append(lat_pushed, <<>>)
  /\ lg_opened' = Append(lg_opened, ok)
  /\ lg_failed' = Append(lg_failed, FALSE)
  /\ UNCHANGED <<running_, lg_pc, current, fin_i, drain_i, lines, join_called,
                 lg_joined, producing, quiet_join>>
  /\ UNCHANGED notLogger

\* LoggerBase::Start(): running_.exchange(true), the worker enters RunLoop
LoggerStart ==
  /\ lg_pc = "idle"
  /\ Len(fds_) = NumQueues
  /\ ~running_
  /\ ~join_called
  /\ running_' = TRUE
  /\ lg_pc' = "loop"
  /\ current' = 0
  /\ UNCHANGED <<fds_, ext_queues_, fin_i, drain_i, lines, files, join_called,
                 lg_joined, producing, quiet_join, lat_pushed, lg_opened,
                 lg_failed>>
  /\ UNCHANGED notLogger

\* a session pushes {arrival_ms, event_ms}; a full queue drops the event,
\* which changes nothing
LatPush(i, e) ==
  /\ lg_pc # "idle"
  /\ producing
  /\ i \in 1..Len(ext_queues_)
  /\ Len(lat_pushed[1]) + Len(lat_pushed[NumQueues]) < MaxLatEvents
  /\ Len(ext_queues_[i]) < LatencyCap
  /\ ext_queues_' = [ext_queues_ EXCEPT ![i] = Append(@, e)]
  /\ lat_pushed' = [lat_pushed EXCEPT ![i] = Append(@, e)]
  /\ UNCHANGED <<fds_, running_, lg_pc, current, fin_i, drain_i, lines, files,
                 join_called, lg_joined, producing, quiet_join, lg_opened,
                 lg_failed>>
  /\ UNCHANGED notLogger

\* sessions.clear(): no session pushes any more
StopProducers ==
  /\ producing
  /\ producing' = FALSE
  /\ UNCHANGED <<fds_, ext_queues_, running_, lg_pc, current, fin_i, drain_i,
                 lines, files, join_called, lg_joined, quiet_join, lat_pushed,
                 lg_opened, lg_failed>>
  /\ UNCHANGED notLogger

\* LoggerBase::Join(): running_.store(false)
LoggerJoin ==
  /\ lg_pc # "idle"
  /\ ~join_called
  /\ running_' = FALSE
  /\ join_called' = TRUE
  /\ quiet_join' = ~producing
  /\ UNCHANGED <<fds_, ext_queues_, lg_pc, current, fin_i, drain_i, lines,
                 files, lg_joined, producing, lat_pushed, lg_opened, lg_failed>>
  /\ UNCHANGED notLogger

\* LoggerBase::Join(): thread_.join() returns once RunLoop has returned
LoggerJoinReturn ==
  /\ join_called
  /\ ~lg_joined
  /\ lg_pc = "exited"
  /\ lg_joined' = TRUE
  /\ UNCHANGED <<fds_, ext_queues_, running_, lg_pc, current, fin_i, drain_i,
                 lines, files, join_called, producing, quiet_join, lat_pushed,
                 lg_opened, lg_failed>>
  /\ UNCHANGED notLogger

\* ~FileLogger: Join(); CloseAll();
CloseAll ==
  /\ lg_joined
  /\ \E i \in 1..Len(fds_) : fds_[i] # -1
  /\ fds_' = [i \in 1..Len(fds_) |-> -1]
  /\ UNCHANGED <<ext_queues_, running_, lg_pc, current, fin_i, drain_i, lines,
                 files, join_called, lg_joined, producing, quiet_join,
                 lat_pushed, lg_opened, lg_failed>>
  /\ UNCHANGED notLogger

\* RunLoop: one pass of for (;;) up to the call of DrainQueue(current)
LoopTop ==
  /\ lg_pc = "loop"
  /\ IF ~running_
     THEN /\ lg_pc' = AfterLoop
          /\ fin_i' = 0
          /\ UNCHANGED <<current, drain_i>>
     ELSE LET c == IF current >= Len(ext_queues_) THEN 0 ELSE current
          IN /\ current' = c
             /\ drain_i' = c
             /\ lg_pc' = "drain"
             /\ UNCHANGED fin_i
  /\ lines' = <<>>
  /\ UNCHANGED <<fds_, ext_queues_, running_, files, join_called, lg_joined,
                 producing, quiet_join, lat_pushed, lg_opened, lg_failed>>
  /\ UNCHANGED notLogger

\* DrainQueue returns: ++current in the round-robin loop, ++i after it
DrainReturn ==
  /\ IF lg_pc = "drain"
     THEN /\ lg_pc' = "loop"
          /\ current' = current + 1
          /\ UNCHANGED fin_i
     ELSE /\ lg_pc' = "final"
          /\ fin_i' = fin_i + 1
          /\ UNCHANGED current
  /\ lines' = <<>>
  /\ UNCHANGED drain_i

\* DrainQueue: if (fd == -1) return;
DrainSkip ==
  /\ lg_pc \in {"drain", "final_drain"}
  /\ fds_[drain_i + 1] = -1
  /\ DrainReturn
  /\ UNCHANGED <<fds_, ext_queues_, running_, files, join_called, lg_joined,
                 producing, quiet_join, lat_pushed, lg_opened, lg_failed>>
  /\ UNCHANGED notLogger

\* DrainQueue: q.pop(ev) returned an event; its line joins the batch, and a
\* batch of LogBatch lines is written
DrainPopEvent ==
  /\ lg_pc \in {"drain", "final_drain"}
  /\ fds_[drain_i + 1] # -1
  /\ ext_queues_[drain_i + 1] # <<>>
  /\ LET i == drain_i + 1
         e == Head(ext_queues_[i])
         ls == BatchLine(lines, [ev |-> e, text |-> LineOf[e], from |-> i,
                                 pass |-> lg_pc])
     IN /\ ext_queues_' = [ext_queues_ EXCEPT ![i] = Tail(@)]
        /\ IF Len(ls) = LogBatch
           THEN /\ files' = [files EXCEPT ![i] = LogWritevAll(@, ls)]
                /\ lg_failed' =
                     [lg_failed EXCEPT ![i] = @ \/ writev_errno # "none"]
                /\ lines' = <<>>
           ELSE /\ lines' = ls
                /\ UNCHANGED <<files, lg_failed>>
  /\ UNCHANGED <<fds_, running_, lg_pc, current, fin_i, drain_i, join_called,
                 lg_joined, producing, quiet_join, lat_pushed, lg_opened>>
  /\ UNCHANGED notLogger

\* DrainQueue: q.pop(ev) returned false; the rest of the batch is written
DrainQueueEnd ==
  /\ lg_pc \in {"drain", "final_drain"}
  /\ fds_[drain_i + 1] # -1
  /\ ext_queues_[drain_i + 1] = <<>>
  /\ LET i == drain_i + 1
     IN IF Len(lines) > 0
        THEN /\ files' = [files EXCEPT ![i] = LogWritevAll(@, lines)]
             /\ lg_failed' =
                  [lg_failed EXCEPT ![i] = @ \/ writev_errno # "none"]
        ELSE UNCHANGED <<files, lg_failed>>
  /\ DrainReturn
  /\ UNCHANGED <<fds_, ext_queues_, running_, join_called, lg_joined,
                 producing, quiet_join, lat_pushed, lg_opened>>
  /\ UNCHANGED notLogger

\* RunLoop: for (i = 0; i < n; ++i) DrainQueue(i); then the worker returns
FinalHead ==
  /\ lg_pc = "final"
  /\ IF fin_i < Len(ext_queues_)
     THEN /\ lg_pc' = "final_drain"
          /\ drain_i' = fin_i
     ELSE /\ lg_pc' = "exited"
          /\ UNCHANGED drain_i
  /\ lines' = <<>>
  /\ UNCHANGED <<fds_, ext_queues_, running_, current, fin_i, files,
                 join_called, lg_joined, producing, quiet_join, lat_pushed,
                 lg_opened, lg_failed>>
  /\ UNCHANGED notLogger

LoggerNext ==
  \/ \E ok \in BOOLEAN : AddSession(ok)
  \/ LoggerStart
  \/ \E i \in Rings, e \in LatencyEvents : LatPush(i, e)
  \/ StopProducers
  \/ LoggerJoin
  \/ LoggerJoinReturn
  \/ CloseAll
  \/ LoopTop
  \/ DrainSkip
  \/ DrainPopEvent
  \/ DrainQueueEnd
  \/ FinalHead
  \/ WritevFails
  \/ WritevRecovers

LoggerSpec == Init /\ [][LoggerNext]_vars

\* the logger over a file system that takes every write
QuietLogger ==
  \/ \E ok \in BOOLEAN : AddSession(ok)
  \/ LoggerStart
  \/ \E i \in Rings, e \in LatencyEvents : LatPush(i, e)
  \/ StopProducers
  \/ LoggerJoin
  \/ LoggerJoinReturn
  \/ CloseAll
  \/ LoopTop
  \/ DrainSkip
  \/ DrainPopEvent
  \/ DrainQueueEnd
  \/ FinalHead

\* the merger has an empty heap and has not taken a step
MergerAtRest ==
  /\ minheap_ = {}
  /\ published = 0
  /\ pc = "ingest"
  /\ qi = 1
  /\ clock = 0
  /\ sessions_running
  /\ ~stop_requested_

\* The two batching writers, the merger's passes and the logger's drains.
\* They share no state, so each is followed on its own: the merger while
\* the logger has not begun, the logger while the merger is at rest.
BatchNext ==
  \/ LoggerInit /\ PassNext
  \/ MergerAtRest /\ QuietLogger

BatchSpec == PassInit /\ [][BatchNext]_vars

\* ------------------------------------------------------------- properties
\* u value of the k-th line of the merged file, read back from its bytes
LineU(k) == ParsedU[out[k].e.buf]
WrittenU == {LineU(k) : k \in DOMAIN out}
PushedU == {p.u : p \in pushed}
MaxWritten ==
  IF out = <<>> THEN 0 ELSE CHOOSE m \in WrittenU : \A v \in WrittenU : v <= m
\* slots of ring i the merger owns: heap entries and the batch being built
Owned(i) == Cardinality({e \in minheap_ : e.src = i}) + CountSrc(batch_entries, i)

\* C1: the u values of successive lines of the merged file are strictly
\* increasing.
C1_StrictlyIncreasing ==
  \A j, k \in DOMAIN out : j < k => LineU(j) < LineU(k)

\* C2: every slot consumed from ring i is released to ring i exactly once,
\* whatever happens to its payload: at any time a consumed slot is either
\* still owned by the merger (heap or batch) or has been released.
C2_ConsumedReleased ==
  \A i \in Rings : consumed[i] = released[i] + Owned(i)

\* C3: every written u was pushed onto the heap, no u is written twice, and
\* once Run has returned every pushed u has been written.
C3_PushedWrittenOnce ==
  /\ WrittenU \subseteq PushedU
  /\ \A j, k \in DOMAIN out : j # k => LineU(j) # LineU(k)
  /\ pc = "done" => PushedU \subseteq WrittenU

\* C4: ingesting a payload whose u is <= last_emitted_u_ leaves the heap, the
\* output and last_emitted_u_ unchanged (it is never pushed, never written).
C4_LateDropped ==
  [][(/\ pc = "ingest"
      /\ consumed' # consumed
      /\ ParsedU[Head(ready_[qi])] # None
      /\ ParsedU[Head(ready_[qi])] <= last_emitted_u_)
     => (/\ minheap_' = minheap_
         /\ out' = out
         /\ last_emitted_u_' = last_emitted_u_)]_vars

\* a late duplicate was dropped at ingest after something had been written
C4_Witness == ev = "drop_late" /\ out # <<>> /\ last_emitted_u_ > 0

\* C5: every line written by FlushReady is at least kHoldback_ old (now -
\* first_seen, with the pass's clock reading); only DrainAll writes younger
\* entries.
C5_FlushHoldback ==
  \A k \in DOMAIN out :
    out[k].by = "flush" => out[k].at - out[k].e.first_seen >= kHoldback_

\* FlushReady wrote a line, and DrainAll wrote one younger than the hold-back
C5_Witness ==
  /\ \E k \in DOMAIN out : out[k].by = "flush"
  /\ \E k \in DOMAIN out :
       out[k].by = "drain" /\ out[k].at - out[k].e.first_seen < kHoldback_

\* C6: if an entry with u = a was pushed onto the heap before a line with
\* larger u = b was written, then a line with u = a precedes that line.
C6_SmallerFirst ==
  \A p \in pushed : \A k \in DOMAIN out :
    (p.pos < k /\ p.u < LineU(k)) => \E j \in 1..(k - 1) : LineU(j) = p.u

\* a was ingested after b, from another ring, and yet written before b
C6_Witness ==
  \E j, k \in DOMAIN out :
    /\ j < k
    /\ LineU(j) < LineU(k)
    /\ out[j].e.id > out[k].e.id
    /\ out[j].e.src # out[k].e.src

\* C7: the sessions have stopped when Join() is called (the runner clears them
\* first); then once Run has returned every ready queue is empty and the heap
\* and the batch are empty.
C7_NothingLeft ==
  (pc = "done" /\ ~sessions_running) =>
    /\ \A i \in Rings : ready_[i] = <<>>
    /\ minheap_ = {}
    /\ batch_entries = <<>>

\* Run returned with every published payload written or dropped
C7_Witness ==
  pc = "done" /\ ~sessions_running /\ published = MaxPublish /\ out # <<>>

\* C8: once Join() has set the stop flag, the worker eventually runs DrainAll
\* and exits and Join() returns (the sessions publish finitely often).
C8_JoinReturns == stop_requested_ ~> (joined /\ pc \in {"done", "notstarted"})

\* Join() returned after the worker drained and exited
C8_Witness == joined /\ pc = "done" /\ out # <<>> /\ published = LivePublish

\* C9: last_emitted_u_ never decreases, and is 0 until the first emission.
C9_LastMonotone ==
  /\ [](out = <<>> => last_emitted_u_ = 0)
  /\ [][last_emitted_u_' >= last_emitted_u_]_vars

\* last_emitted_u_ advanced twice, once in FlushReady and once in DrainAll
C9_Witness ==
  /\ Len(out) = 2
  /\ out[1].by = "flush"
  /\ out[2].by = "drain"
  /\ last_emitted_u_ = LineU(2)
  /\ LineU(1) < LineU(2)

\* C10: whenever FlushReady or DrainAll has returned, last_emitted_u_ is the
\* largest u written so far.
C10_LastIsMaxWritten ==
  pc \in {"check", "done"} => last_emitted_u_ = MaxWritten

\* slots of the ring of RingSpec, by where they are
SlotsOf(q) == {q[k] : k \in DOMAIN q}
FreeSlots == SlotsOf(ring.free)
ReadySlots == {m.slot : m \in SlotsOf(ring.ready)}
ConsHeldSlots == {m.slot : m \in cons_held}

\* C11: with one producer (acquire then publish) and one consumer (consume
\* then release), the slots in free, in ready, held by the producer and held
\* by the consumer number RingCap in all, and every slot is in exactly one of
\* the four places: none is duplicated, none is lost.
C11_SlotsConserved ==
  /\ Len(ring.free) + Len(ring.ready) + Cardinality(prod_held)
       + Cardinality(cons_held) = RingCap
  /\ \A s \in 1..RingCap :
       Cardinality({w \in {"free", "ready", "prod", "cons"} :
                      \/ w = "free" /\ s \in FreeSlots
                      \/ w = "ready" /\ s \in ReadySlots
                      \/ w = "prod" /\ s \in prod_held
                      \/ w = "cons" /\ s \in ConsHeldSlots}) = 1

\* every slot has been round the ring once and one is on its second trip
C11_Witness == Len(pub_log) > RingCap /\ cons_held # {}

\* C12: whenever no slot of payload ring i is in flight (the producer holds
\* none, the merger holds none in its heap or batch), free_size + ready_size
\* is the ring's capacity.
C12_QuiescentFull ==
  \A i \in Rings :
    (~held[i] /\ Owned(i) = 0) => free_[i] + Len(ready_[i]) = RingCap

\* C13: acquire returns false iff free_ is empty and consume returns false iff
\* ready_ is empty; a false call leaves both queues as they were and a true
\* call takes exactly one slot from its queue and leaves the other alone.
C13_FalseIffEmpty ==
  [][(ncalls' = ncalls + 1) =>
       /\ ret'.op = "acquire" =>
            /\ ret'.ok <=> ring.free # <<>>
            /\ ~ret'.ok => ring' = ring
            /\ ret'.ok => /\ ring'.free = Tail(ring.free)
                          /\ ring'.ready = ring.ready
       /\ ret'.op = "consume" =>
            /\ ret'.ok <=> ring.ready # <<>>
            /\ ~ret'.ok => ring' = ring
            /\ ret'.ok => /\ ring'.ready = Tail(ring.ready)
                          /\ ring'.free = ring.free]_vars

\* acquire found free_ empty, after consume had found items in ready_
C13_Witness ==
  ret = [op |-> "acquire", ok |-> FALSE] /\ con_log # <<>> /\ ring.free = <<>>

\* C14: publish of an acquired slot and release of a consumed slot never
\* return false, however the two threads interleave.
C14_PublishReleaseSucceed ==
  ret.op \in {"publish", "release"} => ret.ok

\* release filled free_ to capacity after every slot had been published
C14_Witness ==
  /\ ret.op = "release"
  /\ Len(ring.free) = RingCap
  /\ Len(pub_log) >= RingCap

\* C15: consume returns the items in the order publish accepted them.
C15_Fifo ==
  /\ Len(con_log) <= Len(pub_log)
  /\ con_log = SubSeq(pub_log, 1, Len(con_log))

\* two items consumed while a later one is still queued or unpublished
C15_Witness == Len(con_log) >= 2 /\ Len(pub_log) > Len(con_log)

\* C16: no frame read from the connection is discarded: every frame the
\* session read was accepted by its payload queue.
C16_NoFrameDropped ==
  \A k \in DOMAIN slog : slog[k].ev = "frame" => slog[k].ok

\* the schedule of the claim: 200, 400, 800, 1600, 3200, 5000, 5000, ...
Schedule(k) == IF 200 * 2^(k - 1) < 5000 THEN 200 * 2^(k - 1) ELSE 5000

\* C17: the k-th consecutive Next() since construction or Reset() returns
\* min(200 * 2^(k-1), 5000), every returned value lies in [200, 5000], and
\* the first Next() after a Reset() returns 200.
C17_BackoffSchedule ==
  \A j \in DOMAIN blog :
    /\ blog[j].v = Schedule(blog[j].k)
    /\ blog[j].v >= 200 /\ blog[j].v <= 5000
    /\ blog[j].k = 1 => blog[j].v = 200

\* seven calls in a row reached the cap twice, then Reset() and 200 again
C17_Witness ==
  \E j \in DOMAIN blog :
    /\ blog[j].k = 7 /\ blog[j].v = 5000
    /\ j < Len(blog) /\ blog[j + 1].k = 1 /\ blog[j + 1].v = 200

\* ordinal of the wait slog[k] among the waits since the last successful
\* connect sequence
WaitOrdinal(k) ==
  Cardinality({j \in 1..k :
    /\ slog[j].ev = "wait"
    /\ \A i \in j..k : slog[i].ev # "ok"})

\* C18: in the run loop a failed connect attempt is followed by exactly one
\* backoff wait before the next attempt, the waits since the last success
\* are 200, 400, 800, ... ms, and a successful connect sequence resets the
\* backoff to 200 ms.
C18_BackoffInRun ==
  \A k \in DOMAIN slog :
    /\ (slog[k].ev = "fail" /\ k < Len(slog)) => slog[k + 1].ev = "wait"
    /\ slog[k].ev = "wait" =>
         /\ k > 1 /\ slog[k - 1].ev \in {"fail", "read_err"}
         /\ slog[k].ms = Schedule(WaitOrdinal(k))
    /\ slog[k].ev = "ok" => slog[k].ms = 200

\* three failed attempts with waits 200, 400, 800, then success and a reset,
\* then a lost connection and the wait of 200 again
C18_Witness ==
  /\ Len(slog) >= 10
  /\ [k \in 1..7 |-> slog[k].ev] =
       <<"fail", "wait", "fail", "wait", "fail", "wait", "ok">>
  /\ <<slog[2].ms, slog[4].ms, slog[6].ms>> = <<200, 400, 800>>
  /\ slog[Len(slog)].ev = "wait" /\ slog[Len(slog)].ms = 200

\* C19: when the output file cannot be opened Run returns 1, the merger is
\* never started, and no session has been started.
C19_OpenFailBeforeSessions ==
  (r_pc = "returned" /\ fd_ = -1) =>
    /\ exit_code = 1
    /\ ~merger_started
    /\ sessions_started = 0

\* C20: the Stop section is entered only after a signal when seconds = 0,
\* and only at or after the deadline, seconds after the start, otherwise.
C20_ShutdownOnlyWhenDue ==
  r_pc \in {"stop", "returned"} /\ exit_code # 1 =>
    IF seconds = 0
    THEN signaled
    ELSE deadline # None /\ stop_at >= deadline

\* ------------------------------------------------ write errors in the merger
\* a step of FlushReady or DrainAll that calls io::WritevAll on a batch
FlushWrites ==
  /\ pc = "flush"
  /\ \/ pc' = "check" /\ iov_cnt > 0
     \/ pc' = "flush" /\ BatchFull(iov_cnt + 2) /\ last_u' # last_u

DrainWrites == pc = "drain_batch" /\ pc' = "drain" /\ iov_cnt > 0

\* C24: when the vectored write of a batch fails with an error other than
\* EINTR / EAGAIN, nothing of the batch reaches the file, every slot of the
\* batch goes back to the ring it came from, and the worker stays in its
\* loop: the step ends in FlushReady, at the stop check or in DrainAll.
C24_FailedWriteReleases ==
  [][((FlushWrites \/ DrainWrites) /\ writev_errno # "none") =>
       /\ out' = out
       /\ batch_entries' = <<>>
       /\ \A i \in Rings :
            /\ released'[i] - released[i] = Owned(i) - Owned(i)'
            /\ free_'[i] - free_[i] = Owned(i) - Owned(i)'
       /\ pc' \in {"flush", "check", "drain"}]_vars

\* two payloads were consumed and both their slots released, yet only the
\* second is in the file: the write of the first failed, its slot went back,
\* and the worker went on to write the second
C24_Witness ==
  /\ Len(out) = 1
  /\ out[1].e.id = 2
  /\ \A i \in Rings : released[i] = consumed[i]
  /\ nextid = 3
  /\ minheap_ = {}

\* C25: last_emitted_u_ is the u of a line that is in the file, or still 0:
\* it moves to the largest u of a batch only when the batch was written.
C25_AdvancedOnlyOnSuccess == last_emitted_u_ = 0 \/ last_emitted_u_ \in WrittenU

\* C26: a payload whose update id cannot be parsed is dropped at ingest: it
\* is not pushed to the heap, nothing is written for it, last_emitted_u_
\* stays, and its slot is released in the same ingest step.
C26_UnparseableReleased ==
  [][(ev' = "drop_parse" /\ nextid' # nextid) =>
       /\ minheap_' = minheap_
       /\ out' = out
       /\ last_emitted_u_' = last_emitted_u_
       /\ released' = Inc(released, qi)
       /\ free_' = Inc(free_, qi)]_vars

\* an entry leaves the heap into the batch (FlushReady or DrainAll)
Taken(e) == e \in minheap_ /\ e \notin minheap_' /\ last_u' = e.u /\ last_u < e.u

\* C27: of two heap entries with the same u the one ingested first is the one
\* written: no entry is taken into a batch while the heap holds an entry of
\* the same u that was ingested before it.
C27_FirstSeenWins ==
  [][\A e \in minheap_ :
       Taken(e) => ~\E f \in minheap_ : f.u = e.u /\ f.id < e.id]_vars

\* the worker is in DrainAll or has returned from Run
InDrainAll == pc \in {"drain", "drain_batch", "done"}

\* C28: the merger goes from running to stop requested to draining to
\* closed and never back: the stop flag stays set; DrainAll is entered once,
\* from the stop check, with the stop flag set and every ring empty; while
\* the stop flag is unset the worker neither drains nor returns; and the
\* output descriptor is closed only after the worker has returned.
C28_StopDrainClose ==
  /\ [][stop_requested_ => stop_requested_']_vars
  /\ [][(~InDrainAll /\ InDrainAll') =>
          /\ pc = "check"
          /\ pc' = "drain"
          /\ stop_requested_
          /\ \A i \in Rings : ready_[i] = <<>>]_vars
  /\ [][InDrainAll => InDrainAll']_vars
  /\ [][pc = "done" => pc' = "done"]_vars
  /\ [](~stop_requested_ => ~InDrainAll)
  /\ [][(fd_ # -1 /\ fd_' = -1) => pc = "done" /\ joined]_vars
  /\ [][fd_ = -1 => fd_' = -1]_vars

\* the drain has written a line, the worker has returned, Join() has
\* returned and the descriptor is closed
C28_Witness ==
  /\ pc = "done"
  /\ joined
  /\ fd_ = -1
  /\ \E k \in DOMAIN out : out[k].by = "drain"

\* C29: DrainAll takes nothing from the rings, returns only when the heap is
\* empty, and every line it writes has a u larger than that of every line
\* written before it, so that no duplicate of a written u is emitted.
C29_DrainIncreasing ==
  /\ pc = "done" => minheap_ = {}
  /\ pc \in {"drain", "drain_batch"} => \A i \in Rings : ready_[i] = <<>>
  /\ \A k \in DOMAIN out :
       out[k].by = "drain" => \A j \in 1..(k - 1) : LineU(j) < LineU(k)

\* -------------------------------------------------------- io::WritevAll
\* C30: without a hard error WritevAll returns, and then the file holds every
\* byte of every iovec exactly once and in order, whatever the sizes of the
\* partial writes; at every point, also across EINTR and EAGAIN retries, the
\* bytes written followed by the bytes still to write are the bytes passed in.
C30_WritesEveryByteOnce ==
  /\ [](~w_err => w_file \o Flatten(w_iov) = w_all)
  /\ []((w_pc = "returned" /\ ~w_err) => (w_file = w_all /\ w_iov = <<>>))
  /\ (w_pc = "loop") ~> (w_pc = "returned")

\* a call with the largest input has returned without a hard error after an
\* EINTR, an EAGAIN, a write that ended inside an iovec and one that ended at
\* the end of an iovec
C30_Witness ==
  /\ w_pc = "returned"
  /\ ~w_err
  /\ Len(w_all) = MaxIov * MaxIovLen
  /\ w_seen = {"EINTR", "EAGAIN", "split", "whole"}

\* ------------------------------------------------------- the end of Run
\* Run(opt, mode): the sessions are built and started; in async mode they
\* are coroutines on the reactor's worker, in sync mode each has its thread
RunStart(mode) ==
  /\ t_pc = "run"
  /\ td_mode' = mode
  /\ t_pc' = "wait"
  /\ UNCHANGED <<ioc_stopped, wk, sessions_alive, nhandlers, td_late,
                 notTeardown>>

\* the deadline has passed: if (reactor.has_value()) reactor->Stop();
\* Stop() is work_guard_.reset(); ioc_.stop(); it joins nothing
ReactorStop ==
  /\ t_pc = "wait"
  /\ ioc_stopped' = (td_mode = "async")
  /\ t_pc' = "clear"
  /\ UNCHANGED <<td_mode, wk, sessions_alive, nhandlers, td_late,
                 notTeardown>>

\* sessions.clear() in sync mode: ~SyncSession calls jthread_.request_stop()
ClearRequestStop ==
  /\ t_pc = "clear"
  /\ td_mode = "sync"
  /\ RequestStop

\* sessions.clear(): an AsyncSession has no destructor and its members hold
\* no thread; the jthread_ member of a SyncSession joins its thread
ClearWaits(mode, ypc) == mode = "sync" => ypc = "exited"

\* sessions.clear() returns: the session objects are gone
SessionsClear ==
  /\ t_pc = "clear"
  /\ td_mode = "sync" => st_stop
  /\ ClearWaits(td_mode, y_pc)
  /\ sessions_alive' = FALSE
  /\ t_pc' = "join_merger"
  /\ UNCHANGED <<td_mode, ioc_stopped, wk, nhandlers, td_late, notTeardown>>

\* merger.Join() and logger.Join() are called and return
JoinMerger ==
  /\ t_pc = "join_merger"
  /\ t_pc' = "join_logger"
  /\ UNCHANGED <<td_mode, ioc_stopped, wk, sessions_alive, nhandlers, td_late,
                 notTeardown>>

JoinLogger ==
  /\ t_pc = "join_logger"
  /\ t_pc' = "return"
  /\ UNCHANGED <<td_mode, ioc_stopped, wk, sessions_alive, nhandlers, td_late,
                 notTeardown>>

\* return 0: ~Reactor runs Stop() and then destroys threads_, whose jthreads
\* join the worker
RunReturn ==
  /\ t_pc = "return"
  /\ td_mode = "async" => wk = "exited"
  /\ t_pc' = "returned"
  /\ UNCHANGED <<td_mode, ioc_stopped, wk, sessions_alive, nhandlers, td_late,
                 notTeardown>>

\* reactor worker, ioc_.run(): a completion handler resumes the coroutine of
\* a session (AsyncSession::Run, with `this` captured by the spawn)
WorkerDispatch ==
  /\ td_mode = "async"
  /\ wk = "idle"
  /\ ~ioc_stopped
  /\ nhandlers < MaxHandlers
  /\ wk' = "handler"
  /\ nhandlers' = nhandlers + 1
  /\ UNCHANGED <<td_mode, t_pc, ioc_stopped, sessions_alive, td_late,
                 notTeardown>>

\* the coroutine runs to its next suspension: it reads the members of its
\* session and publishes what it has read
WorkerHandlerEnd ==
  /\ wk = "handler"
  /\ wk' = "idle"
  /\ td_late' = (td_late \/ ~sessions_alive)
  /\ UNCHANGED <<td_mode, t_pc, ioc_stopped, sessions_alive, nhandlers,
                 notTeardown>>

\* ioc_.run() returns once the io_context is stopped and no handler runs
WorkerExit ==
  /\ wk = "idle"
  /\ ioc_stopped
  /\ wk' = "exited"
  /\ UNCHANGED <<td_mode, t_pc, ioc_stopped, sessions_alive, nhandlers,
                 td_late, notTeardown>>

\* the thread of a SyncSession, between Start() and its exit
SyncSessionThread ==
  /\ td_mode = "sync"
  /\ SyncThread

TeardownNext ==
  \/ \E mode \in {"async", "sync"} : RunStart(mode)
  \/ ReactorStop
  \/ ClearRequestStop
  \/ SessionsClear
  \/ JoinMerger
  \/ JoinLogger
  \/ RunReturn
  \/ WorkerDispatch
  \/ WorkerHandlerEnd
  \/ WorkerExit
  \/ SyncSessionThread
  \/ MessagePop

TeardownSpec == Init /\ [][TeardownNext]_vars

\* --------------------------------------------------------------- CpuAffinity
Cpus == 0..(NumCpus - 1)
Threads == 1..AffThreads
Elems(s) == {s[k] : k \in DOMAIN s}

\* PickLeastBusyAllowedCpuExcluding(exclude, sleep_ms): ok is whether
\* sched_getaffinity and both readProcStat calls succeeded, mask the affinity
\* mask, util the utilisation measured for each CPU; the least utilised CPU
\* of the mask that is not excluded, the first of them on a tie
PickLeastBusyAllowedCpuExcluding(exclude, ok, mask, util) ==
  LET cand == {c \in mask : c \notin Elems(exclude)}
  IN IF ~ok \/ cand = {} THEN None
     ELSE CHOOSE c \in cand :
            \A d \in cand : util[c] < util[d] \/ (util[c] = util[d] /\ c <= d)

\* mutant: the lock is granted whoever holds the mutex
LockGrantedAlways(holder) == TRUE

\* std::lock_guard<std::mutex> lock(m_): granted when no thread holds m_
LockGranted(holder) == holder = 0

\* PickAndPin: std::lock_guard lock(m_)
PickLock(t) ==
  /\ a_pc[t] = "idle"
  /\ npicks < MaxPicks
  /\ LockGranted(m_)
  /\ m_' = t
  /\ a_pc' = [a_pc EXCEPT ![t] = "locked"]
  /\ a_ret' = [a_ret EXCEPT ![t] = None]
  /\ npicks' = npicks + 1
  /\ UNCHANGED <<used_, rr_idx_, opt, chosen, nresets, notAffinity>>

\* PickAndPin: auto opt = PickLeastBusyAllowedCpuExcluding(used_, 150)
PickChoose(t) ==
  /\ a_pc[t] = "locked"
  /\ \E ok \in BOOLEAN, mask \in SUBSET Cpus, util \in [Cpus -> 0..1] :
       opt' = [opt EXCEPT
                 ![t] = PickLeastBusyAllowedCpuExcluding(used_, ok, mask, util)]
  /\ a_pc' = [a_pc EXCEPT ![t] = "picked"]
  /\ UNCHANGED <<m_, used_, rr_idx_, chosen, a_ret, npicks, nresets,
                 notAffinity>>

\* PickAndPin: the pick goes into used_, or the next used CPU is taken in
\* turn; the lock_guard's scope ends
PickRecord(t) ==
  /\ a_pc[t] = "picked"
  /\ IF opt[t] # None
     THEN /\ chosen' = [chosen EXCEPT ![t] = opt[t]]
          /\ used_' = Append(used_, opt[t])
          /\ UNCHANGED rr_idx_
     ELSE IF used_ # <<>>
     THEN /\ chosen' = [chosen EXCEPT ![t] = used_[(rr_idx_ % Len(used_)) + 1]]
          /\ rr_idx_' = rr_idx_ + 1
          /\ UNCHANGED used_
     ELSE UNCHANGED <<chosen, used_, rr_idx_>>
  /\ m_' = 0
  /\ a_pc' = [a_pc EXCEPT ![t] = "pin"]
  /\ UNCHANGED <<opt, a_ret, npicks, nresets, notAffinity>>

\* PickAndPin: if (chosen >= 0 && PinThisThreadToCpu(who, chosen)) return
\* chosen; return std::nullopt;
PickReturn(t) ==
  /\ a_pc[t] = "pin"
  /\ \E pinned \in BOOLEAN :
       a_ret' = [a_ret EXCEPT
                   ![t] = IF chosen[t] >= 0 /\ pinned THEN chosen[t] ELSE None]
  /\ a_pc' = [a_pc EXCEPT ![t] = "idle"]
  /\ opt' = [opt EXCEPT ![t] = None]
  /\ chosen' = [chosen EXCEPT ![t] = -1]
  /\ UNCHANGED <<m_, used_, rr_idx_, npicks, nresets, notAffinity>>

\* ResetUsed(): lock_guard lock(m_); used_.clear(); rr_idx_ = 0;
ResetUsed ==
  /\ nresets < MaxResets
  /\ LockGranted(m_)
  /\ used_' = <<>>
  /\ rr_idx_' = 0
  /\ nresets' = nresets + 1
  /\ UNCHANGED <<m_, a_pc, opt, chosen, a_ret, npicks, notAffinity>>

AffinityNext ==
  \/ \E t \in Threads : PickLock(t)
  \/ \E t \in Threads : PickChoose(t)
  \/ \E t \in Threads : PickRecord(t)
  \/ \E t \in Threads : PickReturn(t)
  \/ ResetUsed

AffinitySpec == Init /\ [][AffinityNext]_vars

\* ----------------------------------------------------- one line on its own
\* DrainQueue formats the event it has popped: arrival_ms is a reading of the
\* wall clock, event_ms is whatever int64 the payload's "E" field parsed to.
\* The line depends on nothing but the event, so one event is followed.
FormatLine(a, t) ==
  /\ it_ev' = [arrival_ms |-> a, event_ms |-> t]
  /\ it_line' \in IF a - t \in IntMin..IntMax
                  THEN {LatencyLine(it_ev')}
                  \* signed overflow is undefined: the build either wraps
                  \* (plain) or traps before a line is written (-ftrapv)
                  ELSE {LatencyLine(it_ev'), <<"trap">>}
  /\ UNCHANGED notItoa

ItoaNext ==
  /\ it_line = <<>>
  /\ \E a \in 0..IntMax, t \in IntMin..IntMax : FormatLine(a, t)

ItoaSpec == Init /\ [][ItoaNext]_vars

\* ------------------------------------------------------ FileLogger properties
LatEvents(ls) == [k \in 1..Len(ls) |-> ls[k].ev]

\* the lines DrainQueue(i) has batched and not yet written
Batched(i) ==
  IF lg_pc \in {"drain", "final_drain"} /\ drain_i + 1 = i THEN lines ELSE <<>>

\* t is the decimal numeral of v followed by one newline
OneDecimalLine(t, v) ==
  /\ Len(t) >= 2
  /\ t[Len(t)] = "\n"
  /\ \A p \in 1..(Len(t) - 1) : IsDigit(t[p])
  /\ FromChars(t, 1, 0) = v

\* the session's file was opened and no write to it has failed
FileGood(i) == lg_opened[i] /\ ~lg_failed[i]

\* C21: every event popped from session i's latency queue makes exactly one
\* line, the decimal |arrival_ms - event_ms|, in session i's file and in no
\* other file, and the lines of a session are in the order its events were
\* pushed, provided the file opened and its writes succeeded.
C21_OneLinePerEvent ==
  \A i \in 1..Len(fds_) :
    /\ \A k \in 1..Len(files[i]) : files[i][k].from = i
    /\ FileGood(i) =>
         /\ LatEvents(files[i]) \o LatEvents(Batched(i)) \o ext_queues_[i]
              = lat_pushed[i]
         /\ \A k \in 1..Len(files[i]) :
              LET l == files[i][k]
                  d == l.ev.arrival_ms - l.ev.event_ms
              IN OneDecimalLine(l.text, IF d < 0 THEN -d ELSE d)

\* both files hold lines, one of them two lines of different events, one of
\* them a line of an event that arrived before its event time
C21_Witness ==
  /\ Len(fds_) = NumQueues
  /\ \A i \in 1..NumQueues : FileGood(i) /\ Len(files[i]) >= 1
  /\ \E i \in 1..NumQueues :
       /\ Len(files[i]) >= 2
       /\ files[i][1].ev # files[i][2].ev
       /\ \E k \in 1..Len(files[i]) :
            files[i][k].ev.arrival_ms < files[i][k].ev.event_ms

\* a descriptor is closed only after the worker has made its last pass over
\* every queue and returned
ClosedAfterFinalPass ==
  (\E i \in 1..Len(fds_) : lg_opened[i] /\ fds_[i] = -1) =>
    lg_pc = "exited" /\ fin_i = Len(ext_queues_)

C35_LineIsMagnitude ==
  it_line \notin {<<>>, <<"trap">>} =>
    LET d == it_ev.arrival_ms - it_ev.event_ms
    IN OneDecimalLine(it_line, IF d < 0 THEN -d ELSE d)

\* C37: the free pool of a payload ring is never permanently exhausted: a
\* ring with no free slot always has a slot somewhere it can come back from,
\* a published payload still to be consumed, a slot the producer holds, or a
\* slot the merger owns and will release, so a producer that retries acquire
\* gets one in the end.
C37_NeverExhaustedForGood ==
  \A i \in Rings :
    free_[i] = 0 => (ready_[i] # <<>> \/ held[i] \/ Owned(i) > 0)

\* ----------------------------------------------------- SyncSession properties
\* C23: once stop is requested the session's thread eventually exits, from
\* whatever state; after it has observed the stop it publishes no payload;
\* and while stop is not requested, a recv deadline that expires with no
\* frame leaves it reading on the same connection, with no reconnect and no
\* backoff step.
C23_StopExits ==
  /\ st_stop ~> (y_pc = "exited")
  /\ [][stop_seen => nframes' = nframes /\ Len(queue_') <= Len(queue_)]_vars
  /\ [][(y_pc = "reading" /\ y_pc' # y_pc /\ y_ev' = "timeout" /\ ~st_stop) =>
          /\ y_pc' = "read_top"
          /\ y_conn' = y_conn
          /\ current_ms' = current_ms]_vars

\* the thread has exited on a stop it observed at a recv deadline, on its
\* second connection, having published a frame before
C23_Witness ==
  /\ y_pc = "exited"
  /\ stop_seen
  /\ y_ev = "timeout"
  /\ y_conn = MaxConnects
  /\ nframes > 0

\* the connect step that has just failed, if the attempt ended in a failure
FailedStep == y_steps # <<>> /\ ~y_steps[Len(y_steps)].ok

\* the order of the connect steps that C32 states
StepOrder ==
  <<"resolve", "connect", "sni", "nodelay", "tls_handshake", "configure",
    "ws_handshake">>

C33_ErrorsNeverExit ==
  /\ [](y_pc = "exited" => st_stop /\ stop_seen)
  /\ [][(y_pc' = "exited" /\ y_pc # "exited") => y_pc \in {"top", "ws"}]_vars
  /\ [][(y_pc = "connect" /\ y_pc' # y_pc /\ y_ev' = "fail") =>
          /\ y_pc' = "top"
          /\ current_ms' = Backoff_Next(current_ms).current_ms]_vars
  /\ [][(y_pc = "reading" /\ y_pc' # y_pc /\ y_ev' = "error") =>
          y_pc' = "after_read"]_vars
  /\ [][(y_pc = "after_read" /\ y_pc' # y_pc) =>
          /\ y_pc' = "top"
          /\ current_ms' = Backoff_Next(current_ms).current_ms]_vars
  /\ (y_ev \in {"fail", "error"} /\ y_pc \in {"top", "after_read"})
       ~> (y_pc = "connect" \/ st_stop)

\* after a failed attempt, a connection and a read error on it, the session
\* is connecting again, the backoff delay having grown
C33_Witness ==
  /\ y_pc = "connect"
  /\ y_ev = "error"
  /\ y_conn = MaxConnects
  /\ current_ms > kFirstMs
  /\ ~st_stop

\* the lines a step adds to the merged file
NewLines == SubSeq(out', Len(out) + 1, Len(out'))

\* C31: one vectored write of FlushReady or DrainAll carries at most
\* BatchEntries (64) entries: the iovec index is even, twice the number of
\* batched entries and never above kIovMax (128), and every line written is
\* the entry's payload followed by one newline; one write of the logger
\* carries at most LogBatch (128) lines.
C31_BatchWithinArray ==
  /\ [](/\ iov_cnt <= kIovMax
        /\ iov_cnt % 2 = 0
        /\ iov_cnt = 2 * Len(batch_entries)
        /\ Len(lines) <= LogBatch)
  /\ [][/\ Len(out') - Len(out) <= BatchEntries
        /\ \A k \in DOMAIN NewLines :
             NewLines[k].text = NewLines[k].e.buf \o <<"\n">>
        /\ \A i \in DOMAIN files :
             i \in DOMAIN files' => Len(files'[i]) - Len(files[i]) <= LogBatch]_vars

\* one pass of FlushReady has written a full batch from inside its loop and
\* then the rest of the heap
C31_Witness ==
  /\ Len(out) = BatchEntries + 1
  /\ \A k \in DOMAIN out : out[k].by = "flush" /\ out[k].at = out[1].at
  /\ pc = "check"

\* the entry ingested as the k-th is on the heap
InHeap(k) == \E e \in minheap_ : e.id = k

C34_NoDuplicateCpu ==
  /\ [](\A j, k \in DOMAIN used_ : j # k => used_[j] # used_[k])
  /\ [][Len(used_') > Len(used_) =>
          /\ used_'[Len(used_')] \notin Elems(used_)
          /\ used_' = Append(used_, used_'[Len(used_')])]_vars
  /\ [][nresets' # nresets => used_' = <<>> /\ rr_idx_' = 0]_vars

\* after a reset both threads have made a fresh pick, the second while the
\* first was still pinning, and every CPU is now in use
C34_Witness ==
  /\ nresets = 1
  /\ Len(used_) = NumCpus
  /\ \A t \in Threads : a_pc[t] = "pin" /\ chosen[t] = used_[t]

\* what the pass that ends with this step has written and stored
PassResult ==
  [lines |-> [k \in 1..(Len(out') - pass_len) |-> out'[pass_len + k].text],
   last |-> last_emitted_u_']

\* C39: from the same heap, the same clock reading and the same
\* last_emitted_u_, a pass of the iovec-batched FlushReady and a round of
\* its DrainAll write the lines, and so the update ids, that the
\* string-buffered merger writes and store the same last_emitted_u_,
\* whenever the pass emits at most BatchEntries (64) entries.
C39_SameAsStringBuffered ==
  /\ [][(pc = "flush" /\ pc' = "check") =>
          LET olds == OldFlushReady(pass_heap, now_, last_emitted_u_)
          IN (\A r \in olds : Len(r.lines) <= BatchEntries) =>
               PassResult \in olds]_vars
  /\ [][(pc = "drain_batch" /\ pc' = "drain") =>
          LET olds == OldDrainRound(pass_heap, last_emitted_u_)
          IN (\A r \in olds : Len(r.lines) <= BatchEntries) =>
               PassResult \in olds]_vars

\* the main thread has reached merger.Join() or is past it
AtMergerJoin == t_pc \in {"join_merger", "join_logger", "return", "returned"}

\* C38: when the runner calls merger.Join() no session can publish or run
\* session code any more: in sync mode the thread of the session has exited,
\* in async mode the reactor worker is in no handler, and it was in none
\* when the session objects were destroyed.
C38_SessionsQuietAtJoin ==
  /\ AtMergerJoin =>
       /\ td_mode = "sync" => y_pc = "exited"
       /\ td_mode = "async" => wk # "handler"
  /\ ~sessions_alive => wk # "handler"
  /\ ~td_late

====
